---- MODULE Spec2Model ----
(***************************************************************************)
(* GpuPreAgg (src/src/cuda_gpupreagg.h): the atomic combine library, the   *)
(* kernel task control block with its suspend/resume protocol, and the     *)
(* local/global hash aggregators.                                          *)
(*                                                                         *)
(* A Datum is 64 bits wide.  It is kept as two 32-bit words, hi and lo,    *)
(* each held as the signed value of its bit pattern (two's complement), so *)
(* that every word of the program fits the integers of the model checker   *)
(* and the arithmetic below wraps where the arithmetic of the code wraps.  *)
(***************************************************************************)
EXTENDS Integers, Sequences, FiniteSets, TLC

(* ---------------------------------------------------------------------- *)
(* 32-bit words                                                            *)
(* ---------------------------------------------------------------------- *)
INT_MAX == 2147483647
INT_MIN == -INT_MAX - 1

\* a + b modulo 2^32, on the signed values of the bit patterns
Add32(a, b) ==
  IF a >= 0 /\ b >= 0 /\ a > INT_MAX - b
    THEN (a - INT_MAX - 1) + (b - INT_MAX - 1)
  ELSE IF a < 0 /\ b < 0 /\ a < INT_MIN - b
    THEN (a + INT_MAX + 1) + (b + INT_MAX + 1)
  ELSE a + b

\* comparison of two words as unsigned 32-bit numbers
ULess32(a, b) ==
  IF (a < 0) = (b < 0) THEN a < b ELSE b < 0

\* the low 31 bits of a word (the word without its sign bit)
Low31(w) == IF w >= 0 THEN w ELSE (w + INT_MAX) + 1

\* the word with the same low 31 bits and the sign bit set
WithSign(m) == (m - INT_MAX) - 1

Datum(h, l) == [hi |-> h, lo |-> l]

\* (Datum)x for a 32-bit signed int x: sign extension to 64 bits
DatumOfInt(x) == Datum(IF x < 0 THEN -1 ELSE 0, x)

(* ---------------------------------------------------------------------- *)
(* 64-bit integers (cl_long / cl_ulong) on a Datum                        *)
(* ---------------------------------------------------------------------- *)
LongLess(x, y) ==
  \/ x.hi < y.hi
  \/ x.hi = y.hi /\ ULess32(x.lo, y.lo)

\* x + y modulo 2^64
LongAdd(x, y) ==
  LET l == Add32(x.lo, y.lo)
      carry == IF ULess32(l, x.lo) THEN 1 ELSE 0
  IN  Datum(Add32(Add32(x.hi, y.hi), carry), l)

LONG_MAX == Datum(INT_MAX, -1)
LONG_MIN == Datum(INT_MIN, 0)

(* ---------------------------------------------------------------------- *)
(* IEEE-754 single precision on a 32-bit word (__int_as_float)            *)
(* ---------------------------------------------------------------------- *)
FLT_EXP_ONE  == 8388608          \* 2^23, one unit of the exponent field
FLT_INF_BITS == 2139095040       \* 0x7f800000
FLT_MAX_BITS == 2139095039       \* 0x7f7fffff
FLT_NAN_BITS == 2147483647       \* 0x7fffffff, the canonical NaN of the device

FltIsNaN(w)  == Low31(w) > FLT_INF_BITS
FltIsInf(w)  == Low31(w) = FLT_INF_BITS
FltIsZero(w) == Low31(w) = 0
FltNeg(w)    == w < 0

\* position of a non-NaN float on the real line, as an order-preserving key
FltKey(w) == IF w >= 0 THEN w ELSE -Low31(w)

\* the < and > of the floating interpretation; false when either is NaN
FltLess(a, b) == ~FltIsNaN(a) /\ ~FltIsNaN(b) /\ FltKey(a) < FltKey(b)
FltGreater(a, b) == FltLess(b, a)
\* the == of the floating interpretation
FltEq(a, b) == ~FltIsNaN(a) /\ ~FltIsNaN(b) /\ FltKey(a) = FltKey(b)

RECURSIVE Pow2(_)
Pow2(n) == IF n = 0 THEN 1 ELSE 2 * Pow2(n - 1)

RECURSIVE Log2Floor(_)
Log2Floor(n) == IF n <= 1 THEN 0 ELSE 1 + Log2Floor(n \div 2)

\* A finite float is integer-valued and small when its exponent lies in
\* [127, 150] and the mantissa bits below the binary point are zero.
FltIsSmallInt(w) ==
  LET m == Low31(w)
      e == m \div FLT_EXP_ONE
  IN  \/ m = 0
      \/ /\ e >= 127 /\ e <= 150
         /\ (FLT_EXP_ONE + (m % FLT_EXP_ONE)) % Pow2(150 - e) = 0

\* the integer a small integer-valued float stands for
FltToInt(w) ==
  LET m == Low31(w)
      e == m \div FLT_EXP_ONE
      n == IF m = 0 THEN 0
           ELSE (FLT_EXP_ONE + (m % FLT_EXP_ONE)) \div Pow2(150 - e)
  IN  IF FltNeg(w) THEN -n ELSE n

\* the float of an integer n, 0 < |n| < 2^24 (exactly representable)
FltOfInt(n) ==
  LET a == IF n < 0 THEN -n ELSE n
      k == Log2Floor(a)
      m == (127 + k) * FLT_EXP_ONE + (a * Pow2(23 - k) - FLT_EXP_ONE)
  IN  IF n < 0 THEN WithSign(m) ELSE m

\* a + b in single precision, round to nearest.  Exact for NaN, infinities,
\* zeroes and small integer-valued operands (whose sum is below 2^24 and so
\* representable); FltAddExact tells whether a pair is in that domain.
FltAddExact(a, b) ==
  \/ FltIsNaN(a) \/ FltIsNaN(b) \/ FltIsInf(a) \/ FltIsInf(b)
  \/ FltIsZero(a) \/ FltIsZero(b)
  \/ /\ FltIsSmallInt(a) /\ FltIsSmallInt(b)
     /\ Low31(a) < 150 * FLT_EXP_ONE /\ Low31(b) < 150 * FLT_EXP_ONE

FltAdd(a, b) ==
  IF FltIsNaN(a) \/ FltIsNaN(b) THEN FLT_NAN_BITS
  ELSE IF FltIsInf(a) /\ FltIsInf(b)
    THEN (IF FltNeg(a) = FltNeg(b) THEN a ELSE FLT_NAN_BITS)
  ELSE IF FltIsInf(a) THEN a
  ELSE IF FltIsInf(b) THEN b
  ELSE IF FltIsZero(a) /\ FltIsZero(b)
    THEN (IF FltNeg(a) /\ FltNeg(b) THEN a ELSE 0)
  ELSE IF FltIsZero(a) THEN b
  ELSE IF FltIsZero(b) THEN a
  ELSE LET s == FltToInt(a) + FltToInt(b)
       IN  IF s = 0 THEN 0 ELSE FltOfInt(s)

(* ---------------------------------------------------------------------- *)
(* IEEE-754 double precision on a Datum (__longlong_as_double)            *)
(* ---------------------------------------------------------------------- *)
DBL_EXP_ONE == 1048576           \* 2^20, one unit of the exponent field in hi
DBL_INF_HI  == 2146435072        \* 0x7ff00000
DBL_MAX_HI  == 2146435071        \* 0x7fefffff (with lo = 0xffffffff)

DBL_NAN == Datum(INT_MAX, -1)    \* 0x7fffffffffffffff, the canonical NaN

DblIsNaN(d) ==
  \/ Low31(d.hi) > DBL_INF_HI
  \/ Low31(d.hi) = DBL_INF_HI /\ d.lo # 0
DblIsInf(d)  == Low31(d.hi) = DBL_INF_HI /\ d.lo = 0
DblIsZero(d) == Low31(d.hi) = 0 /\ d.lo = 0
DblNeg(d)    == d.hi < 0

DblMagLess(a, b) ==
  \/ Low31(a.hi) < Low31(b.hi)
  \/ Low31(a.hi) = Low31(b.hi) /\ ULess32(a.lo, b.lo)

DblLess(a, b) ==
  /\ ~DblIsNaN(a) /\ ~DblIsNaN(b)
  /\ IF DblNeg(a)
       THEN (IF DblNeg(b) THEN DblMagLess(b, a)
                          ELSE ~(DblIsZero(a) /\ DblIsZero(b)))
       ELSE (IF DblNeg(b) THEN FALSE ELSE DblMagLess(a, b))
DblGreater(a, b) == DblLess(b, a)
DblEq(a, b) ==
  /\ ~DblIsNaN(a) /\ ~DblIsNaN(b)
  /\ ~DblLess(a, b) /\ ~DblLess(b, a)

\* small integer-valued doubles: lo = 0, exponent in [1023, 1043]
DblIsSmallInt(d) ==
  LET m == Low31(d.hi)
      e == m \div DBL_EXP_ONE
  IN  /\ d.lo = 0
      /\ \/ m = 0
         \/ /\ e >= 1023 /\ e <= 1043
            /\ (DBL_EXP_ONE + (m % DBL_EXP_ONE)) % Pow2(1043 - e) = 0

DblToInt(d) ==
  LET m == Low31(d.hi)
      e == m \div DBL_EXP_ONE
      n == IF m = 0 THEN 0
           ELSE (DBL_EXP_ONE + (m % DBL_EXP_ONE)) \div Pow2(1043 - e)
  IN  IF DblNeg(d) THEN -n ELSE n

\* the double of an integer n, 0 < |n| < 2^21
DblOfInt(n) ==
  LET a == IF n < 0 THEN -n ELSE n
      k == Log2Floor(a)
      m == (1023 + k) * DBL_EXP_ONE + (a * Pow2(20 - k) - DBL_EXP_ONE)
  IN  Datum(IF n < 0 THEN WithSign(m) ELSE m, 0)

DblAddExact(a, b) ==
  \/ DblIsNaN(a) \/ DblIsNaN(b) \/ DblIsInf(a) \/ DblIsInf(b)
  \/ DblIsZero(a) \/ DblIsZero(b)
  \/ /\ DblIsSmallInt(a) /\ DblIsSmallInt(b)
     /\ Low31(a.hi) < 1043 * DBL_EXP_ONE /\ Low31(b.hi) < 1043 * DBL_EXP_ONE

DblAdd(a, b) ==
  IF DblIsNaN(a) \/ DblIsNaN(b) THEN DBL_NAN
  ELSE IF DblIsInf(a) /\ DblIsInf(b)
    THEN (IF DblNeg(a) = DblNeg(b) THEN a ELSE DBL_NAN)
  ELSE IF DblIsInf(a) THEN a
  ELSE IF DblIsInf(b) THEN b
  ELSE IF DblIsZero(a) /\ DblIsZero(b)
    THEN (IF DblNeg(a) /\ DblNeg(b) THEN a ELSE Datum(0, 0))
  ELSE IF DblIsZero(a) THEN b
  ELSE IF DblIsZero(b) THEN a
  ELSE LET s == DblToInt(a) + DblToInt(b)
       IN  IF s = 0 THEN Datum(0, 0) ELSE DblOfInt(s)

(* ---------------------------------------------------------------------- *)
(* Atomic combine library: init, normal, shuffle, merge                    *)
(* An accumulator and a new value are both [dclass, datum].                *)
(* ---------------------------------------------------------------------- *)
DATUM_CLASS__NORMAL == "NORMAL"
DATUM_CLASS__NULL   == "NULL"

Slot(c, d) == [dclass |-> c, datum |-> d]

\* Min(x,y) is ((x) < (y) ? (x) : (y)), Max(x,y) is ((x) > (y) ? (x) : (y))
MinInt(x, y) == IF x < y THEN x ELSE y
MaxInt(x, y) == IF x > y THEN x ELSE y
MinLong(x, y) == IF LongLess(x, y) THEN x ELSE y
MaxLong(x, y) == IF LongLess(y, x) THEN x ELSE y
MinFlt(x, y) == IF FltLess(x, y) THEN x ELSE y
MaxFlt(x, y) == IF FltGreater(x, y) THEN x ELSE y
MinDbl(x, y) == IF DblLess(x, y) THEN x ELSE y
MaxDbl(x, y) == IF DblGreater(x, y) THEN x ELSE y

aggcalc_init_min_int    == Slot(DATUM_CLASS__NULL, DatumOfInt(INT_MAX))
aggcalc_init_max_int    == Slot(DATUM_CLASS__NULL, DatumOfInt(INT_MIN))
aggcalc_init_add_int    == Slot(DATUM_CLASS__NULL, Datum(0, 0))
aggcalc_init_min_long   == Slot(DATUM_CLASS__NULL, LONG_MAX)
aggcalc_init_max_long   == Slot(DATUM_CLASS__NULL, LONG_MIN)
aggcalc_init_add_long   == Slot(DATUM_CLASS__NULL, Datum(0, 0))
aggcalc_init_min_float  == Slot(DATUM_CLASS__NULL, DatumOfInt(FLT_MAX_BITS))
aggcalc_init_max_float  == Slot(DATUM_CLASS__NULL,
                                DatumOfInt(WithSign(FLT_MAX_BITS)))
aggcalc_init_add_float  == Slot(DATUM_CLASS__NULL, DatumOfInt(0))
aggcalc_init_min_double == Slot(DATUM_CLASS__NULL, Datum(DBL_MAX_HI, -1))
aggcalc_init_max_double == Slot(DATUM_CLASS__NULL,
                                Datum(WithSign(DBL_MAX_HI), -1))
aggcalc_init_add_double == Slot(DATUM_CLASS__NULL, Datum(0, 0))

\* The int and float kinds read and write *((cl_int *)p_accum_datum), the
\* low word of the Datum; the high word keeps what it held.
aggcalc_normal_min_int(accum, newval) ==
  IF newval.dclass = DATUM_CLASS__NORMAL
    THEN Slot(DATUM_CLASS__NORMAL,
              [accum.datum EXCEPT !.lo = MinInt(@, newval.datum.lo)])
    ELSE accum

aggcalc_normal_max_int(accum, newval) ==
  IF newval.dclass = DATUM_CLASS__NORMAL
    THEN Slot(DATUM_CLASS__NORMAL,
              [accum.datum EXCEPT !.lo = MaxInt(@, newval.datum.lo)])
    ELSE accum

\* += on a cl_int (cl_long for the long kind): the add instruction of the
\* device keeps the low 32 (64) bits of the sum
aggcalc_normal_add_int(accum, newval) ==
  IF newval.dclass = DATUM_CLASS__NORMAL
    THEN Slot(DATUM_CLASS__NORMAL,
              [accum.datum EXCEPT !.lo = Add32(@, newval.datum.lo)])
    ELSE accum

aggcalc_normal_min_long(accum, newval) ==
  IF newval.dclass = DATUM_CLASS__NORMAL
    THEN Slot(DATUM_CLASS__NORMAL, MinLong(accum.datum, newval.datum))
    ELSE accum

\* (a slip: the class set to NORMAL whatever the class of the new value)
aggcalc_normal_max_long_anyclass(accum, newval) ==
  Slot(DATUM_CLASS__NORMAL,
       IF newval.dclass = DATUM_CLASS__NORMAL
         THEN MaxLong(accum.datum, newval.datum) ELSE accum.datum)
aggcalc_normal_max_long(accum, newval) ==
  IF newval.dclass = DATUM_CLASS__NORMAL
    THEN Slot(DATUM_CLASS__NORMAL, MaxLong(accum.datum, newval.datum))
    ELSE accum

aggcalc_normal_add_long(accum, newval) ==
  IF newval.dclass = DATUM_CLASS__NORMAL
    THEN Slot(DATUM_CLASS__NORMAL, LongAdd(accum.datum, newval.datum))
    ELSE accum

aggcalc_normal_min_float(accum, newval) ==
  IF newval.dclass = DATUM_CLASS__NORMAL
    THEN Slot(DATUM_CLASS__NORMAL,
              [accum.datum EXCEPT !.lo = MinFlt(@, newval.datum.lo)])
    ELSE accum

aggcalc_normal_max_float(accum, newval) ==
  IF newval.dclass = DATUM_CLASS__NORMAL
    THEN Slot(DATUM_CLASS__NORMAL,
              [accum.datum EXCEPT !.lo = MaxFlt(@, newval.datum.lo)])
    ELSE accum

aggcalc_normal_add_float(accum, newval) ==
  IF newval.dclass = DATUM_CLASS__NORMAL
    THEN Slot(DATUM_CLASS__NORMAL,
              [accum.datum EXCEPT !.lo = FltAdd(@, newval.datum.lo)])
    ELSE accum

aggcalc_normal_min_double(accum, newval) ==
  IF newval.dclass = DATUM_CLASS__NORMAL
    THEN Slot(DATUM_CLASS__NORMAL, MinDbl(accum.datum, newval.datum))
    ELSE accum

aggcalc_normal_max_double(accum, newval) ==
  IF newval.dclass = DATUM_CLASS__NORMAL
    THEN Slot(DATUM_CLASS__NORMAL, MaxDbl(accum.datum, newval.datum))
    ELSE accum

aggcalc_normal_add_double(accum, newval) ==
  IF newval.dclass = DATUM_CLASS__NORMAL
    THEN Slot(DATUM_CLASS__NORMAL, DblAdd(accum.datum, newval.datum))
    ELSE accum

Kinds == {"min_int", "max_int", "add_int", "min_long", "max_long", "add_long",
          "min_float", "max_float", "add_float",
          "min_double", "max_double", "add_double"}
IntKinds == {"min_int", "max_int", "add_int", "min_long", "max_long", "add_long"}
WordKinds == {"min_int", "max_int", "add_int",
              "min_float", "max_float", "add_float"}
FloatWordKinds == {"min_float", "max_float", "add_float"}
DoubleKinds == {"min_double", "max_double", "add_double"}
CasKinds == {"min_float", "max_float", "min_double", "max_double"}

aggcalc_init(kind) ==
  CASE kind = "min_int"    -> aggcalc_init_min_int
    [] kind = "max_int"    -> aggcalc_init_max_int
    [] kind = "add_int"    -> aggcalc_init_add_int
    [] kind = "min_long"   -> aggcalc_init_min_long
    [] kind = "max_long"   -> aggcalc_init_max_long
    [] kind = "add_long"   -> aggcalc_init_add_long
    [] kind = "min_float"  -> aggcalc_init_min_float
    [] kind = "max_float"  -> aggcalc_init_max_float
    [] kind = "add_float"  -> aggcalc_init_add_float
    [] kind = "min_double" -> aggcalc_init_min_double
    [] kind = "max_double" -> aggcalc_init_max_double
    [] kind = "add_double" -> aggcalc_init_add_double

aggcalc_normal(kind, accum, newval) ==
  CASE kind = "min_int"    -> aggcalc_normal_min_int(accum, newval)
    [] kind = "max_int"    -> aggcalc_normal_max_int(accum, newval)
    [] kind = "add_int"    -> aggcalc_normal_add_int(accum, newval)
    [] kind = "min_long"   -> aggcalc_normal_min_long(accum, newval)
    [] kind = "max_long"   -> aggcalc_normal_max_long(accum, newval)
    [] kind = "add_long"   -> aggcalc_normal_add_long(accum, newval)
    [] kind = "min_float"  -> aggcalc_normal_min_float(accum, newval)
    [] kind = "max_float"  -> aggcalc_normal_max_float(accum, newval)
    [] kind = "add_float"  -> aggcalc_normal_add_float(accum, newval)
    [] kind = "min_double" -> aggcalc_normal_min_double(accum, newval)
    [] kind = "max_double" -> aggcalc_normal_max_double(accum, newval)
    [] kind = "add_double" -> aggcalc_normal_add_double(accum, newval)

\* aggcalc_shuffle_<kind>: the accumulator of lane lane_id is fetched by
\* __shfl_sync and handed to the normal operation as the new value.
aggcalc_shuffle(kind, accum, lane_accum) ==
  aggcalc_normal(kind, accum, Slot(lane_accum.dclass, lane_accum.datum))

\* The atomic instruction of each merge function: the Datum it leaves at
\* p_accum_datum, given the Datum it finds there.
aggcalc_merge_min_int_atomic(datum, newval_datum) ==
  [datum EXCEPT !.lo = MinInt(@, newval_datum.lo)]
\* (a slip: atomicMin where atomicMax was meant)
aggcalc_merge_max_int_atomic_min(datum, newval_datum) ==
  [datum EXCEPT !.lo = MinInt(@, newval_datum.lo)]
aggcalc_merge_max_int_atomic(datum, newval_datum) ==
  [datum EXCEPT !.lo = MaxInt(@, newval_datum.lo)]
\* (a slip: a plain store where atomicAdd was meant)
aggcalc_merge_add_int_atomic_store(datum, newval_datum) ==
  [datum EXCEPT !.lo = newval_datum.lo]
\* (a slip: the sum clamped to the int range instead of wrapping)
aggcalc_merge_add_int_atomic_clamped(datum, newval_datum) ==
  [datum EXCEPT !.lo =
     IF @ >= 0 /\ newval_datum.lo >= 0 /\ @ > INT_MAX - newval_datum.lo
       THEN INT_MAX
     ELSE IF @ < 0 /\ newval_datum.lo < 0 /\ @ < INT_MIN - newval_datum.lo
       THEN INT_MIN
     ELSE @ + newval_datum.lo]
aggcalc_merge_add_int_atomic(datum, newval_datum) ==
  [datum EXCEPT !.lo = Add32(@, newval_datum.lo)]
aggcalc_merge_min_long_atomic(datum, newval_datum) ==
  MinLong(datum, newval_datum)
aggcalc_merge_max_long_atomic(datum, newval_datum) ==
  MaxLong(datum, newval_datum)
aggcalc_merge_add_long_atomic(datum, newval_datum) ==
  LongAdd(datum, newval_datum)
aggcalc_merge_add_float_atomic(datum, newval_datum) ==
  [datum EXCEPT !.lo = FltAdd(@, newval_datum.lo)]
aggcalc_merge_add_double_atomic(datum, newval_datum) ==
  DblAdd(datum, newval_datum)

\* The compare-and-swap loops of the floating min and max: the test that
\* leaves the loop, on oldval and newval (words for float, Datums for double)
aggcalc_merge_min_float_break(oldval, newval) == FltLess(oldval.lo, newval.lo)
aggcalc_merge_max_float_break(oldval, newval) == FltGreater(oldval.lo, newval.lo)
\* (a slip: the loop is left when the old value is the greater one)
aggcalc_merge_min_double_break_greater(oldval, newval) ==
  DblGreater(oldval, newval)
aggcalc_merge_min_double_break(oldval, newval) == DblLess(oldval, newval)
aggcalc_merge_max_double_break(oldval, newval) == DblGreater(oldval, newval)

aggcalc_merge_atomic(kind, datum, newval_datum) ==
  CASE kind = "min_int"    -> aggcalc_merge_min_int_atomic(datum, newval_datum)
    [] kind = "max_int"    -> aggcalc_merge_max_int_atomic(datum, newval_datum)
    [] kind = "add_int"    -> aggcalc_merge_add_int_atomic(datum, newval_datum)
    [] kind = "min_long"   -> aggcalc_merge_min_long_atomic(datum, newval_datum)
    [] kind = "max_long"   -> aggcalc_merge_max_long_atomic(datum, newval_datum)
    [] kind = "add_long"   -> aggcalc_merge_add_long_atomic(datum, newval_datum)
    [] kind = "add_float"  -> aggcalc_merge_add_float_atomic(datum, newval_datum)
    [] kind = "add_double" -> aggcalc_merge_add_double_atomic(datum, newval_datum)

aggcalc_merge_break(kind, oldval, newval) ==
  CASE kind = "min_float"  -> aggcalc_merge_min_float_break(oldval, newval)
    [] kind = "max_float"  -> aggcalc_merge_max_float_break(oldval, newval)
    [] kind = "min_double" -> aggcalc_merge_min_double_break(oldval, newval)
    [] kind = "max_double" -> aggcalc_merge_max_double_break(oldval, newval)

\* (a slip: the value the swap returned is not taken as the next old value)
aggcalc_merge_oldval_stale(oldval, curval) == oldval

\* oldval = curval at the head of the loop: the value to compare and to
\* swap against is the one read last
aggcalc_merge_oldval(oldval, curval) == curval

\* what the compare-and-swap loop reads, compares and swaps: the low word
\* (cl_uint) for float, the whole Datum (cl_ulong) for double
CasView(kind, datum) ==
  IF kind \in DoubleKinds THEN datum ELSE Datum(0, datum.lo)
CasWrite(kind, datum, newval) ==
  IF kind \in DoubleKinds THEN newval ELSE [datum EXCEPT !.lo = newval.lo]

\* the value of an accumulator as its kind reads it
AccumView(kind, datum) ==
  IF kind \in WordKinds THEN Datum(0, datum.lo) ELSE datum

(* ---------------------------------------------------------------------- *)
(* The combine library under concurrent use (specification SpecCalc)       *)
(*                                                                         *)
(* NThreads threads of one warp work on accumulators of one kind.  Each    *)
(* thread folds its own new value into its private accumulator (normal),   *)
(* the warp exchanges private accumulators (shuffle), and each thread then *)
(* merges its new value into the one shared accumulator (merge/update      *)
(* atomic), one instruction of the merge function at a time.               *)
(* ---------------------------------------------------------------------- *)
NThreads == 3
Threads == 1..NThreads

(* ---------------------------------------------------------------------- *)
(* The ArrowFile writer of fluentd (specification SpecArrow): state         *)
(* ---------------------------------------------------------------------- *)

VARIABLES a_table,   \* SQLtable of each process: nitems, fdesc, columns, ...
          a_mcxt,    \* currentMallocContext of each process
          a_pc,      \* where each process stands in its call
          a_via,     \* the method that called arrowFileWriteRecordBatch
          a_saved,   \* nitems_saved of rb_ArrowFile__writeRow
          a_files,   \* the output files: the blocks written to each
          a_path,    \* the file the pathname names now
          a_flock,   \* flock(2): the holder of LOCK_EX on each file, or 0
          a_inputs,  \* the rows the caller passes to writeRow
          a_calls,   \* history: calls of each process so far
          a_rows,    \* history: rows writeRow accepted since the last clear
          a_last,    \* history: how the last call of each process ended
          a_done,    \* history: record batches whose write returned
          a_dir,     \* the directory: the file named by each numeric suffix
          a_dlock,   \* flock(2): the holders of LOCK_EX on the directory
          a_sw       \* arrowFileOpen of each process: fdesc, and the locals
                     \* of __arrowFileSwitchNext

switchVars == <<a_dir, a_dlock, a_sw>>

arrowVars == <<a_table, a_mcxt, a_pc, a_via, a_saved, a_files, a_path,
               a_flock, a_inputs, a_calls, a_rows, a_last, a_done, switchVars>>

\* no ArrowFile object exists while the kernel side is exercised
ArrowIdle ==
  /\ a_table = <<>>
  /\ a_mcxt = <<>>
  /\ a_pc = <<>>
  /\ a_via = <<>>
  /\ a_saved = <<>>
  /\ a_files = <<>>
  /\ a_path = 0
  /\ a_flock = <<>>
  /\ a_inputs = {}
  /\ a_calls = <<>>
  /\ a_rows = <<>>
  /\ a_last = <<>>
  /\ a_done = {}
  /\ a_dir = <<>>
  /\ a_dlock = {}
  /\ a_sw = <<>>

VARIABLES pn_str,    \* the pathname given to the constructor of ArrowFile
          pn_pc,     \* "new", "accepted", "rejected", "opened", "raised"
          pn_out     \* the file name arrowFileOpen made of the pathname

pathVars == <<pn_str, pn_pc, pn_out>>

VARIABLES col_kind,  \* the type of the column under test, "none" outside
          col,       \* the SQLfield of the column, its buffers in bytes
          col_puts,  \* put_value calls that returned since the last clear
          col_last,  \* the datum of the last put_value call
          col_pc     \* "idle", "put", "reverted", "cleared"

colVars == <<col_kind, col, col_puts, col_last, col_pc>>

VARIABLES st_in,     \* the number under test, as sign and decimal digits
          st_ival,   \* ival of write_ruby_int128_stat
          st_minus,  \* is_minus
          st_temp,   \* the characters at pos of temp
          st_out,    \* the characters written to buf
          st_pc      \* "new", "loop", "done", "special", "trapped"

statVars == <<st_in, st_ival, st_minus, st_temp, st_out, st_pc>>

VARIABLES mc_next,   \* next of the context (0) and of every chunk
          mc_prev,   \* prev of the context (0) and of every chunk
          mc_heap,   \* the addresses malloc gave out and free has not seen
          mc_live,   \* the chunks allocated and not yet pfree'd
          mc_rel,    \* the addresses mallocContextRelease has freed
          mc_curr,   \* curr of mallocContextRelease
          mc_op,     \* the last operation on the context
          mc_pc      \* "open", "releasing", "released"

memVars == <<mc_next, mc_prev, mc_heap, mc_live, mc_rel, mc_curr, mc_op, mc_pc>>

unitVars == <<pathVars, colVars, statVars, memVars>>

\* no pathname is under test
PathIdle ==
  /\ pn_str = <<>>
  /\ pn_pc = "none"
  /\ pn_out = <<>>

\* no column is under test
ColumnIdle ==
  /\ col_kind = "none"
  /\ col = <<>>
  /\ col_puts = 0
  /\ col_last = <<>>
  /\ col_pc = "none"

\* no number is under test
StatIdle ==
  /\ st_in = <<>>
  /\ st_ival = <<>>
  /\ st_minus = FALSE
  /\ st_temp = <<>>
  /\ st_out = <<>>
  /\ st_pc = "none"

\* no allocation context is under test
MemIdle ==
  /\ mc_next = <<>>
  /\ mc_prev = <<>>
  /\ mc_heap = {}
  /\ mc_live = {}
  /\ mc_rel = <<>>
  /\ mc_curr = 0
  /\ mc_op = "none"
  /\ mc_pc = "none"

UnitIdle ==
  /\ PathIdle
  /\ ColumnIdle
  /\ StatIdle
  /\ MemIdle

VARIABLES c_kind,   \* the accumulate kind under test, "none" outside SpecCalc
          c_acc,    \* the shared accumulator
          c_priv,   \* the private accumulator of each thread
          c_in,     \* the new value of each thread
          c_pc,     \* where each thread stands
          c_old     \* oldval of each thread's compare-and-swap loop

calcVars == <<c_kind, c_acc, c_priv, c_in, c_pc, c_old>>

\* the non-NULL new values each kind is tried on
CalcValues(kind) ==
  IF kind \in {"min_int", "max_int", "add_int"}
    THEN {DatumOfInt(INT_MIN), DatumOfInt(-1), DatumOfInt(1), DatumOfInt(INT_MAX)}
  ELSE IF kind \in {"min_long", "max_long", "add_long"}
    THEN {LONG_MIN, Datum(-1, -1), Datum(0, -1), LONG_MAX}
  ELSE IF kind \in FloatWordKinds
    THEN {DatumOfInt(FltOfInt(1)), DatumOfInt(FltOfInt(-3)),
          DatumOfInt(FLT_INF_BITS), DatumOfInt(WithSign(FLT_INF_BITS))}
  ELSE {DblOfInt(1), DblOfInt(-3),
        Datum(DBL_INF_HI, 0), Datum(WithSign(DBL_INF_HI), 0)}

CalcInputs(kind) ==
  {Slot(DATUM_CLASS__NORMAL, d) : d \in CalcValues(kind)}
    \cup {Slot(DATUM_CLASS__NULL, Datum(0, 0))}

(* ---------------------------------------------------------------------- *)
(* The GpuPreAgg kernel task (specification Spec): state                    *)
(*                                                                          *)
(* The header defines the control block, the suspend context, the hash      *)
(* item, the two hash tables and the host-side reset; the bodies of the     *)
(* reduction functions are only declared there.  Their steps are modelled   *)
(* after the behavioural description of the component (spec.md 4.2-4.4)     *)
(* and are marked as such in the model map.                                 *)
(* ---------------------------------------------------------------------- *)

\* number of rows of the input batch (kds_slot)
NRows == 4

VARIABLES kds_slot,     \* the input batch: sequence of rows [key, x]
          kgpreagg,     \* struct kern_gpupreagg (the control block)
          suspend_ctx,  \* gpupreaggSuspendContext[], one per block
          f_hash,       \* kern_global_hashslot with its arena
          kds_final,    \* the final buffer: sequence of accumulator rows
          l_nrooms,     \* GPUPREAGG_LOCAL_HASH_NROOMS of this query
          l_pc,         \* per block: position in the reduction
          l_cur,        \* per block: flat offset of the row it is at
          l_end,        \* per block: end offset of the chunk it is in
          l_tab,        \* per block: preagg_local_hashtable and its rooms
          l_priv,       \* per block: private accumulators (nogroup)
          ctl,          \* state of the suspend/resume controller
          persisted,    \* rows the caller drained from the final buffer
          f_junk,       \* the key held by row memory not initialised yet
          folded        \* history: how often each input row reached kds_final

pipeVars == <<kds_slot, kgpreagg, suspend_ctx, f_hash, kds_final, l_nrooms,
              l_pc, l_cur, l_end, l_tab, l_priv, ctl, persisted, f_junk,
              folded>>

\* the pipeline is absent while the combine library is exercised alone
PipeIdle ==
  /\ kds_slot = <<>>
  /\ kgpreagg = <<>>
  /\ suspend_ctx = <<>>
  /\ f_hash = <<>>
  /\ kds_final = <<>>
  /\ l_nrooms = 0
  /\ l_pc = <<>>
  /\ l_cur = <<>>
  /\ l_end = <<>>
  /\ l_tab = <<>>
  /\ l_priv = <<>>
  /\ ctl = "none"
  /\ persisted = <<>>
  /\ f_junk = "none"
  /\ folded = <<>>

CalcIdle ==
  /\ c_kind = "none"
  /\ c_acc = Slot(DATUM_CLASS__NULL, Datum(0, 0))
  /\ c_priv = <<>>
  /\ c_in = <<>>
  /\ c_pc = <<>>
  /\ c_old = <<>>

CalcInit ==
  /\ c_kind \in Kinds
  /\ c_acc = aggcalc_init(c_kind)
  /\ c_priv = [t \in Threads |-> aggcalc_init(c_kind)]
  /\ c_in \in [Threads -> CalcInputs(c_kind)]
  /\ c_pc = [t \in Threads |-> "start"]
  /\ c_old = [t \in Threads |-> Datum(0, 0)]
  /\ PipeIdle
  /\ ArrowIdle
  /\ UnitIdle

\* aggcalc_normal_<kind> on the private accumulator
CalcNormal(t) ==
  /\ c_pc[t] = "start"
  /\ c_priv' = [c_priv EXCEPT ![t] = aggcalc_normal(c_kind, @, c_in[t])]
  /\ c_pc' = [c_pc EXCEPT ![t] = "sync"]
  /\ UNCHANGED <<c_kind, c_acc, c_in, c_old>>
  /\ UNCHANGED <<pipeVars, arrowVars, unitVars>>

\* the lane each lane reads in the shuffle
ShuffleLane(t) == (t % NThreads) + 1

\* aggcalc_shuffle_<kind>, executed by the whole warp in lockstep: every
\* lane reads the accumulator its source lane held before the exchange
CalcShuffle ==
  /\ \A t \in Threads : c_pc[t] = "sync"
  /\ c_priv' = [t \in Threads |->
                  aggcalc_shuffle(c_kind, c_priv[t], c_priv[ShuffleLane(t)])]
  /\ c_pc' = [t \in Threads |-> "merge"]
  /\ UNCHANGED <<c_kind, c_acc, c_in, c_old>>
  /\ UNCHANGED <<pipeVars, arrowVars, unitVars>>

\* aggcalc_merge_<kind>, up to and including its first access to the
\* shared accumulator: nothing for a NULL, the atomic instruction for the
\* integer kinds and the sums, the plain read of curval and the first test
\* of the loop for the floating min and max
CalcMergeBegin(t) ==
  /\ c_pc[t] = "merge"
  /\ IF c_in[t].dclass # DATUM_CLASS__NORMAL
       THEN /\ c_pc' = [c_pc EXCEPT ![t] = "done"]
            /\ UNCHANGED <<c_acc, c_old>>
     ELSE IF c_kind \in CasKinds
       THEN LET curval == CasView(c_kind, c_acc.datum)
                oldval == aggcalc_merge_oldval(c_old[t], curval)
            IN  /\ c_old' = [c_old EXCEPT ![t] = oldval]
                /\ c_pc' = [c_pc EXCEPT ![t] =
                     IF aggcalc_merge_break(c_kind, oldval,
                                            CasView(c_kind, c_in[t].datum))
                       THEN "store" ELSE "cas"]
                /\ UNCHANGED c_acc
     ELSE /\ c_acc' = [c_acc EXCEPT !.datum =
                         aggcalc_merge_atomic(c_kind, @, c_in[t].datum)]
          /\ c_pc' = [c_pc EXCEPT ![t] = "store"]
          /\ UNCHANGED c_old
  /\ UNCHANGED <<c_kind, c_priv, c_in>>
  /\ UNCHANGED <<pipeVars, arrowVars, unitVars>>

\* curval = atomicCAS(p_accum_datum, oldval, newval), then the loop test
CalcMergeCas(t) ==
  /\ c_pc[t] = "cas"
  /\ LET curval == CasView(c_kind, c_acc.datum)
         newval == CasView(c_kind, c_in[t].datum)
     IN  IF curval = c_old[t]
           THEN /\ c_acc' = [c_acc EXCEPT !.datum = CasWrite(c_kind, @, newval)]
                /\ c_pc' = [c_pc EXCEPT ![t] = "store"]
                /\ UNCHANGED c_old
           ELSE LET oldval == aggcalc_merge_oldval(c_old[t], curval)
                IN  /\ c_old' = [c_old EXCEPT ![t] = oldval]
                    /\ c_pc' = [c_pc EXCEPT ![t] =
                         IF aggcalc_merge_break(c_kind, oldval, newval)
                           THEN "store" ELSE "cas"]
                    /\ UNCHANGED c_acc
  /\ UNCHANGED <<c_kind, c_priv, c_in>>
  /\ UNCHANGED <<pipeVars, arrowVars, unitVars>>

\* *p_accum_dclass = DATUM_CLASS__NORMAL
CalcMergeStore(t) ==
  /\ c_pc[t] = "store"
  /\ c_acc' = [c_acc EXCEPT !.dclass = DATUM_CLASS__NORMAL]
  /\ c_pc' = [c_pc EXCEPT ![t] = "done"]
  /\ UNCHANGED <<c_kind, c_priv, c_in, c_old>>
  /\ UNCHANGED <<pipeVars, arrowVars, unitVars>>

(* ---------------------------------------------------------------------- *)
(* The GpuPreAgg kernel task: data structures                               *)
(* ---------------------------------------------------------------------- *)

UINT_MAX == -1                        \* 0xffffffff as a 32-bit word
GPUPREAGG_LOCAL_HASH_NSLOTS == 1153
SIZEOF_HASH_ITEM == 12                \* sizeof(preagg_hash_item): 3 x cl_uint
SIZEOF_UINT == 4                      \* sizeof(cl_uint)
SIZEOF_SUSPEND_CONTEXT == 8           \* sizeof(gpupreaggSuspendContext)
OFFSETOF_SLOTS == 20                  \* offsetof(kern_global_hashslot, slots)

\* group keys of the test batch and the hash value of each: "A" and "C"
\* have the same hash value, "B" shares their bucket in the local table
\* (1154 % 1153 = 1) but not in a global table of two buckets
GroupKeys == {"A", "B", "C"}

gpupreagg_hashvalue(key) ==
  CASE key = "A" -> 1
    [] key = "B" -> 1154
    [] OTHER     -> 1

gpupreagg_keymatch(x_key, y_key) == x_key = y_key

\* the aggregate columns of the test query: count(*), sum(x), max(x)
AccKinds == <<"add_int", "add_int", "max_int">>
AccCols == 1..Len(AccKinds)

\* x of the row at flat offset off: a distinct power of two, so that a sum
\* shows which rows went into it; the row at offset 1 has a NULL x
RowValue(off) ==
  IF off = 1 THEN Slot(DATUM_CLASS__NULL, Datum(0, 0))
             ELSE Slot(DATUM_CLASS__NORMAL, DatumOfInt(Pow2(off)))

RowOffsets == 0..(NRows - 1)
RowAt(off) == kds_slot[off + 1]

\* the values a row contributes to the aggregate columns
gpupreagg_projection_row(row) ==
  <<Slot(DATUM_CLASS__NORMAL, DatumOfInt(1)), row.x, row.x>>

gpupreagg_init_slot == [c \in AccCols |-> aggcalc_init(AccKinds[c])]

gpupreagg_update_normal(dst, src) ==
  [c \in AccCols |-> aggcalc_normal(AccKinds[c], dst[c], src[c])]

\* one aggcalc_merge_<kind> call run to its end: the atomic instruction on
\* the datum, then the store of the class
aggcalc_merge(kind, accum, newval) ==
  IF newval.dclass = DATUM_CLASS__NORMAL
  THEN Slot(DATUM_CLASS__NORMAL,
            aggcalc_merge_atomic(kind, accum.datum, newval.datum))
  ELSE accum

gpupreagg_merge_atomic(dst, src) ==
  [c \in AccCols |-> aggcalc_merge(AccKinds[c], dst[c], src[c])]

gpupreagg_update_atomic(dst, src) ==
  [c \in AccCols |-> aggcalc_merge(AccKinds[c], dst[c], src[c])]

\* an accumulator row of a local room or of the final buffer; src is the
\* history of input rows that were combined into it
AccRow(key, acc, src) == [key |-> key, acc |-> acc, src |-> src]

(* ---- struct kern_gpupreagg ---- *)

\* suspend_size is the size of the suspend array behind the parameter
\* buffer, 0 if the caller provides none; kparams is kept by its length
KernGpuPreAgg(num_group_keys, grid_sz, block_sz, suspend_size) ==
  [kerror |-> [errcode |-> 0],
   num_group_keys |-> num_group_keys,
   read_slot_pos |-> 0,
   grid_sz |-> grid_sz,
   block_sz |-> block_sz,
   setup_slot_done |-> FALSE,
   final_buffer_modified |-> FALSE,
   resume_context |-> FALSE,
   suspend_count |-> 0,
   suspend_size |-> suspend_size,
   nitems_real |-> 0,
   nitems_filtered |-> 0,
   num_groups |-> 0,
   extra_usage |-> 0,
   kparams |-> [length |-> 2 * SIZEOF_SUSPEND_CONTEXT]]

\* (a slip: suspend_count is not cleared)
gpupreagg_reset_kernel_task_noclear(kg, resume_context) ==
  [kg EXCEPT !.kerror = [errcode |-> 0],
             !.read_slot_pos = 0,
             !.setup_slot_done = FALSE,
             !.final_buffer_modified = FALSE,
             !.resume_context = resume_context]

\* (a slip: resume_context is not stored)
gpupreagg_reset_kernel_task_noresume(kg, resume_context) ==
  [kg EXCEPT !.kerror = [errcode |-> 0],
             !.read_slot_pos = 0,
             !.setup_slot_done = FALSE,
             !.final_buffer_modified = FALSE,
             !.suspend_count = 0]

gpupreagg_reset_kernel_task(kg, resume_context) ==
  [kg EXCEPT !.kerror = [errcode |-> 0],
             !.read_slot_pos = 0,
             !.setup_slot_done = FALSE,
             !.final_buffer_modified = FALSE,
             !.resume_context = resume_context,
             !.suspend_count = 0]

\* (a slip: the error of the context is not written to the control block)
kern_writeback_error_status_dropped(kerror, kcxt_errcode) == kerror

\* the first error a context reports is kept in the shared error status
kern_writeback_error_status(kerror, kcxt_errcode) ==
  IF kcxt_errcode # 0 /\ kerror.errcode = 0
  THEN [kerror EXCEPT !.errcode = kcxt_errcode]
  ELSE kerror

KERN_GPUPREAGG_PARAMBUF_LENGTH(kg) == kg.kparams.length

\* (a slip: the group_id is not added)
KERN_GPUPREAGG_SUSPEND_CONTEXT_first(kg, group_id) ==
  IF kg.suspend_size > 0
  THEN <<KERN_GPUPREAGG_PARAMBUF_LENGTH(kg)>>
  ELSE <<>>

\* pointer to the block's entry of the suspend array, as <<byte offset from
\* KERN_GPUPREAGG_PARAMBUF(kgpreagg)>>, or <<>> for NULL
KERN_GPUPREAGG_SUSPEND_CONTEXT(kg, group_id) ==
  IF kg.suspend_size > 0
  THEN <<KERN_GPUPREAGG_PARAMBUF_LENGTH(kg) + SIZEOF_SUSPEND_CONTEXT * group_id>>
  ELSE <<>>

\* the entry of suspend_ctx a pointer into the suspend array points to
SuspendEntry(kg, ptr) ==
  (ptr[1] - KERN_GPUPREAGG_PARAMBUF_LENGTH(kg)) \div SIZEOF_SUSPEND_CONTEXT

\* a suspend context holds <<src_base>>, or <<>> while no cursor is saved
NoContext == <<>>

(* ---- preagg_hash_item and the local hash table ---- *)

\* (a slip: the link to the rest of the chain is not stored)
preagg_hash_item_nonext(index, hash, next) ==
  [index |-> index, hash |-> hash, next |-> UINT_MAX]

preagg_hash_item(index, hash, next) ==
  [index |-> index, hash |-> hash, next |-> next]

LocalBuckets ==
  {gpupreagg_hashvalue(k) % GPUPREAGG_LOCAL_HASH_NSLOTS : k \in GroupKeys}

LocalEmpty ==
  [nitems |-> 0,
   l_hslots |-> [b \in LocalBuckets |-> UINT_MAX],
   l_hitems |-> <<>>,
   rooms |-> <<>>]

RECURSIVE LocalChainFind(_, _, _, _, _)
LocalChainFind(tab, cur, hash, key, fuel) ==
  IF cur = UINT_MAX \/ fuel = 0 THEN UINT_MAX
  ELSE LET hitem == tab.l_hitems[cur + 1]
       IN  IF /\ hitem.hash = hash
              /\ gpupreagg_keymatch(tab.rooms[hitem.index + 1].key, key)
           THEN hitem.index
           ELSE LocalChainFind(tab, hitem.next, hash, key, fuel - 1)

LocalFind(tab, key) ==
  LET hash == gpupreagg_hashvalue(key)
  IN  LocalChainFind(tab, tab.l_hslots[hash % GPUPREAGG_LOCAL_HASH_NSLOTS],
                     hash, key, tab.nitems)

\* claim room tab.nitems for key and link it at the head of its chain
LocalInsert(tab, key) ==
  LET hash == gpupreagg_hashvalue(key)
      b    == hash % GPUPREAGG_LOCAL_HASH_NSLOTS
      n    == tab.nitems
  IN  [nitems |-> n + 1,
       l_hslots |-> [tab.l_hslots EXCEPT ![b] = n],
       l_hitems |-> Append(tab.l_hitems,
                           preagg_hash_item(n, hash, tab.l_hslots[b])),
       rooms |-> Append(tab.rooms, AccRow(key, gpupreagg_init_slot, {}))]

LocalCombine(tab, room, off) ==
  [tab EXCEPT !.rooms[room + 1] =
     AccRow(@.key,
            gpupreagg_update_atomic(@.acc, gpupreagg_projection_row(RowAt(off))),
            @.src \cup {off})]

(* ---- kern_global_hashslot: header, bucket array, items from the tail ---- *)

\* (a slip: the item placed one item too far from the tail)
GLOBAL_HASHSLOT_GETITEM_offbyone(fh, index) ==
  fh.length - SIZEOF_HASH_ITEM * (index + 2)

\* byte offset of hash item index from the start of f_hash
GLOBAL_HASHSLOT_GETITEM(fh, index) ==
  fh.length - SIZEOF_HASH_ITEM * (index + 1)

\* the arena is kept as 32-bit words from offsetof(slots) to length
WordAt(fh, offset) == fh.mem[((offset - OFFSETOF_SLOTS) \div SIZEOF_UINT) + 1]

WordsPut(mem, offset, words) ==
  LET w0 == (offset - OFFSETOF_SLOTS) \div SIZEOF_UINT
  IN  [w \in DOMAIN mem |->
         IF w - w0 \in 1..Len(words) THEN words[w - w0] ELSE mem[w]]

SlotOffset(i) == OFFSETOF_SLOTS + SIZEOF_UINT * i
SlotsEnd(fh) == SlotOffset(fh.nslots)

\* an empty table of nslots buckets with room for nrooms hash items
GlobalHashSlot(nslots, nrooms) ==
  [length |-> OFFSETOF_SLOTS + SIZEOF_UINT * nslots + SIZEOF_HASH_ITEM * nrooms,
   lock |-> 0,
   usage |-> 0,
   nslots |-> nslots,
   mem |-> [w \in 1..(nslots + 3 * nrooms) |->
              IF w <= nslots THEN UINT_MAX ELSE 0]]

\* number of hash items the arena can hold behind its bucket array
HashSlotRooms(fh) == (fh.length - SlotsEnd(fh)) \div SIZEOF_HASH_ITEM

\* item index fits: it starts at or behind the end of the bucket array
HashItemFits(fh, index) == GLOBAL_HASHSLOT_GETITEM(fh, index) >= SlotsEnd(fh)

\* (a slip: the exclusive bit is not looked at)
LockExclusiveHeld_never(fh) == FALSE

\* the lock word: bit 0 is set while the exclusive lock is held, the bits
\* above it count the holders of the shared lock
LockExclusiveHeld(fh) == fh.lock % 2 = 1
LockShared(fh) == [fh EXCEPT !.lock = @ + 2]
UnlockShared(fh) == [fh EXCEPT !.lock = @ - 2]
LockExclusive(fh) == [fh EXCEPT !.lock = 1]
UnlockExclusive(fh) == [fh EXCEPT !.lock = 0]

ReadItem(fh, index) ==
  LET o == GLOBAL_HASHSLOT_GETITEM(fh, index)
  IN  preagg_hash_item(WordAt(fh, o), WordAt(fh, o + 4), WordAt(fh, o + 8))

\* what row memory holds before gpupreagg_init_final_slot and the copy of
\* the group key have run on it: the key of any group, or none of them
JunkKeys == GroupKeys \cup {"none"}

\* the group key read from row index of the final buffer; a row behind the
\* rows created so far is memory that is not initialised
RowKeyAt(final, index) ==
  IF index < Len(final) THEN final[index + 1].key ELSE f_junk

RECURSIVE GlobalChainFind(_, _, _, _, _, _)
GlobalChainFind(fh, final, cur, hash, key, fuel) ==
  IF cur = UINT_MAX \/ fuel = 0 THEN UINT_MAX
  ELSE LET hitem == ReadItem(fh, cur)
       IN  IF /\ hitem.hash = hash
              /\ gpupreagg_keymatch(RowKeyAt(final, hitem.index), key)
           THEN hitem.index
           ELSE GlobalChainFind(fh, final, hitem.next, hash, key, fuel - 1)

\* row of kds_final that holds key, or UINT_MAX
GlobalFind(fh, final, key) ==
  LET hash == gpupreagg_hashvalue(key)
  IN  GlobalChainFind(fh, final, WordAt(fh, SlotOffset(hash % fh.nslots)),
                      hash, key, Len(final) + 1)

\* link hash item index (for row index of kds_final) at the head of its chain
GlobalLink(fh, index, key) ==
  LET hash == gpupreagg_hashvalue(key)
      so   == SlotOffset(hash % fh.nslots)
      o    == GLOBAL_HASHSLOT_GETITEM(fh, index)
  IN  [fh EXCEPT !.mem = WordsPut(WordsPut(@, o, <<index, hash, WordAt(fh, so)>>),
                                  so, <<index>>)]

\* (a slip: the merge runs over the key attributes too)
FinalCombine_allattrs(final, index, accs, src) ==
  [final EXCEPT ![index + 1] =
     AccRow("", gpupreagg_merge_atomic(@.acc, accs), @.src \cup src)]

FinalCombine(final, index, accs, src) ==
  [final EXCEPT ![index + 1] =
     AccRow(@.key, gpupreagg_merge_atomic(@.acc, accs), @.src \cup src)]

\* every room of a local table merged into its row of kds_final
RECURSIVE FinalMergeRooms(_, _, _)
FinalMergeRooms(fh, final, rooms) ==
  IF rooms = <<>> THEN final
  ELSE LET room == Head(rooms)
           idx  == GlobalFind(fh, final, room.key)
       IN  FinalMergeRooms(fh,
                           IF idx = UINT_MAX THEN final
                           ELSE FinalCombine(final, idx, room.acc, room.src),
                           Tail(rooms))

RECURSIVE RoomsSrc(_)
RoomsSrc(rooms) ==
  IF rooms = <<>> THEN {} ELSE Head(rooms).src \cup RoomsSrc(Tail(rooms))

\* folded, after the rows in src reached kds_final once more
FoldedAdd(f, src) == [off \in DOMAIN f |-> IF off \in src THEN f[off] + 1 ELSE f[off]]

(* ---------------------------------------------------------------------- *)
(* The GpuPreAgg kernel task: launches of the reduction kernels             *)
(* ---------------------------------------------------------------------- *)

NSlots == 2                 \* buckets of the global hash table

GridSizes == {1, 2}         \* grid_sz of a launch
BlockSizes == {1, 2}        \* block_sz: rows of one chunk
FinalRooms == {1, 2, 3}     \* rows the final buffer and its hash arena hold
LocalRooms == {0, 1, 2}     \* GPUPREAGG_LOCAL_HASH_NROOMS

Blocks == DOMAIN l_pc

\* the batch with the group keys keys; errcode is the error the
\* evaluation of a row raises, 0 for none: the row at offset fault raises
\* one (no row does for fault = UINT_MAX)
BatchOf(keys, fault) ==
  [i \in 1..NRows |-> [key |-> keys[i], x |-> RowValue(i - 1),
                       errcode |-> IF i - 1 = fault THEN 1 ELSE 0]]

PipeStart(num_group_keys, batch, grid_sz, block_sz, nrooms, local_nrooms, suspend_size) ==
  /\ kds_slot = batch
  /\ kgpreagg = KernGpuPreAgg(num_group_keys, grid_sz, block_sz, suspend_size)
  /\ suspend_ctx = [g \in 0..(grid_sz - 1) |-> NoContext]
  /\ f_hash = GlobalHashSlot(NSlots, nrooms)
  /\ kds_final = IF num_group_keys = 0
                 THEN <<AccRow("", gpupreagg_init_slot, {})>>
                 ELSE <<>>
  /\ l_nrooms = local_nrooms
  /\ l_pc = [g \in 0..(grid_sz - 1) |-> "entry"]
  /\ l_cur = [g \in 0..(grid_sz - 1) |-> 0]
  /\ l_end = [g \in 0..(grid_sz - 1) |-> 0]
  /\ l_tab = [g \in 0..(grid_sz - 1) |-> LocalEmpty]
  /\ l_priv = [g \in 0..(grid_sz - 1) |-> AccRow("", gpupreagg_init_slot, {})]
  /\ ctl = "RUNNING"
  /\ persisted = <<>>
  /\ f_junk = "none"
  /\ folded = [off \in RowOffsets |-> 0]

\* "A" and "C" have the same hash value and differ in their names only: of
\* two batches that differ by exchanging them, the one that meets "A"
\* first is taken
CanonicalKeys(keys) ==
  \A i \in DOMAIN keys : keys[i] = "C" => \E j \in 1..(i - 1) : keys[j] = "A"

\* a suspend array of one entry per block
SuspendArraySize(grid_sz) == grid_sz * SIZEOF_SUSPEND_CONTEXT

\* the first launch of a reduction over a batch with keys of keyset, a
\* final buffer of a size of rooms and a local table of a size of lrooms;
\* or over a batch of which one row raises an evaluation fault; a nogroup
\* reduction, which has no overflow, runs with or without a suspend array
PipeInitOver(keyset, rooms, lrooms) ==
  /\ CalcIdle
  /\ ArrowIdle
  /\ UnitIdle
  /\ \/ \E keys \in [1..NRows -> keyset], grid_sz \in GridSizes,
           block_sz \in BlockSizes, nrooms \in rooms, local_nrooms \in lrooms :
          /\ CanonicalKeys(keys)
          /\ PipeStart(1, BatchOf(keys, UINT_MAX), grid_sz, block_sz, nrooms,
                       local_nrooms, SuspendArraySize(grid_sz))
     \/ \E grid_sz \in GridSizes, block_sz \in BlockSizes :
        \E suspend_size \in {0, SuspendArraySize(grid_sz)} :
          PipeStart(0, BatchOf([i \in 1..NRows |-> "A"], UINT_MAX),
                    grid_sz, block_sz, 1, 0, suspend_size)
     \/ \E fault \in RowOffsets, num_group_keys \in {0, 1},
           grid_sz \in GridSizes, block_sz \in BlockSizes :
          PipeStart(num_group_keys,
                    BatchOf([i \in 1..NRows |-> IF i % 2 = 1 THEN "A" ELSE "B"],
                            fault),
                    grid_sz, block_sz, 1, num_group_keys,
                    SuspendArraySize(grid_sz))

PipeInit == PipeInitOver(GroupKeys, FinalRooms, LocalRooms)

\* end of the rows the block reads in its current chunk
ChunkLimit(g) == IF l_end[g] < NRows THEN l_end[g] ELSE NRows

\* (a slip: the block goes on with the chunk next to its own)
NextChunk_adjacent(g) == l_end[g]

\* start of the chunk the block takes after its current one
NextChunk(g) == l_end[g] + (kgpreagg.grid_sz - 1) * kgpreagg.block_sz

\* kernel entry of block g: a first launch claims the block's first chunk
\* from read_slot_pos; a resumed launch takes the cursor the block saved
LaneEntry(g) ==
  /\ l_pc[g] = "entry"
  /\ LET ctx   == KERN_GPUPREAGG_SUSPEND_CONTEXT(kgpreagg, g)
         saved == IF ctx = <<>> THEN NoContext
                  ELSE suspend_ctx[SuspendEntry(kgpreagg, ctx)]
         start == IF kgpreagg.resume_context THEN saved
                  ELSE <<kgpreagg.read_slot_pos>>
         base  == IF start = NoContext THEN NRows ELSE start[1]
         rowpc == IF kgpreagg.num_group_keys = 0 THEN "nrow" ELSE "row"
     IN  /\ IF kgpreagg.resume_context
            THEN /\ suspend_ctx' = IF ctx = <<>> THEN suspend_ctx
                                   ELSE [suspend_ctx EXCEPT
                                           ![SuspendEntry(kgpreagg, ctx)] =
                                              NoContext]
                 /\ UNCHANGED kgpreagg
            ELSE /\ kgpreagg' = [kgpreagg EXCEPT
                                   !.read_slot_pos = @ + kgpreagg.block_sz]
                 /\ UNCHANGED suspend_ctx
         /\ IF start = NoContext
            THEN /\ l_pc' = [l_pc EXCEPT ![g] = "exit"]
                 /\ UNCHANGED <<l_cur, l_end>>
            ELSE /\ l_pc' = [l_pc EXCEPT ![g] =
                               IF base >= NRows THEN "exit" ELSE rowpc]
                 /\ l_cur' = [l_cur EXCEPT ![g] = base]
                 /\ l_end' = [l_end EXCEPT ![g] =
                      ((base \div kgpreagg.block_sz) + 1) * kgpreagg.block_sz]
  /\ l_tab' = [l_tab EXCEPT ![g] = LocalEmpty]
  /\ l_priv' = [l_priv EXCEPT ![g] = AccRow("", gpupreagg_init_slot, {})]
  /\ ctl' = IF ctl = "RESUMING" /\ \A h \in Blocks \ {g} : l_pc[h] # "entry"
            THEN "RUNNING" ELSE ctl
  /\ UNCHANGED <<kds_slot, f_hash, kds_final, l_nrooms, persisted, folded>>
  /\ UNCHANGED f_junk
  /\ UNCHANGED <<calcVars, arrowVars, unitVars>>

\* the row at offset off, whose group is row index of kds_final, is combined:
\* into a newly claimed local room if one is free, else into kds_final
PlaceRow(g, off, final, index) ==
  IF l_tab[g].nitems < l_nrooms
  THEN /\ l_tab' = [l_tab EXCEPT ![g] =
                      LocalCombine(LocalInsert(@, RowAt(off).key), @.nitems, off)]
       /\ kds_final' = final
       /\ UNCHANGED folded
  ELSE /\ kds_final' = FinalCombine(final, index,
                                    gpupreagg_projection_row(RowAt(off)), {off})
       /\ folded' = FoldedAdd(folded, {off})
       /\ UNCHANGED l_tab

\* groupby reduction, one row: an evaluation fault of the row sets the
\* error of the block's context and ends the row; else probe the local
\* table; on a miss take the shared lock of the global table, which waits
\* for an exclusive holder
GroupRow(g) ==
  /\ l_pc[g] = "row"
  /\ l_cur[g] < ChunkLimit(g)
  /\ LET off  == l_cur[g]
         key  == RowAt(off).key
         room == IF l_nrooms > 0 THEN LocalFind(l_tab[g], key) ELSE UINT_MAX
     IN  IF RowAt(off).errcode # 0
         THEN /\ l_pc' = [l_pc EXCEPT ![g] = "error"]
              /\ UNCHANGED <<f_hash, l_tab, l_cur>>
         ELSE IF room # UINT_MAX
         THEN /\ l_tab' = [l_tab EXCEPT ![g] = LocalCombine(@, room, off)]
              /\ l_cur' = [l_cur EXCEPT ![g] = off + 1]
              /\ UNCHANGED <<f_hash, l_pc>>
         ELSE /\ ~LockExclusiveHeld(f_hash)
              /\ f_hash' = LockShared(f_hash)
              /\ l_pc' = [l_pc EXCEPT ![g] = "probe"]
              /\ UNCHANGED <<l_tab, l_cur>>
  /\ UNCHANGED <<kds_slot, kgpreagg, suspend_ctx, kds_final, l_nrooms, l_end,
                 l_priv, ctl, persisted, folded>>
  /\ UNCHANGED f_junk
  /\ UNCHANGED <<calcVars, arrowVars, unitVars>>

\* under the shared lock: probe the global table; on a match combine the
\* row by atomic operations; release the shared lock
GroupProbe(g) ==
  /\ l_pc[g] = "probe"
  /\ LET off == l_cur[g]
         idx == GlobalFind(f_hash, kds_final, RowAt(off).key)
     IN  IF idx # UINT_MAX
         THEN /\ PlaceRow(g, off, kds_final, idx)
              /\ l_cur' = [l_cur EXCEPT ![g] = off + 1]
              /\ l_pc' = [l_pc EXCEPT ![g] = "row"]
              /\ kgpreagg' = [kgpreagg EXCEPT !.final_buffer_modified =
                                @ \/ (kds_final' # kds_final)]
         ELSE /\ l_pc' = [l_pc EXCEPT ![g] = "reserve"]
              /\ UNCHANGED <<l_tab, l_cur, kds_final, folded, kgpreagg>>
  /\ f_hash' = UnlockShared(f_hash)
  /\ UNCHANGED <<kds_slot, suspend_ctx, l_nrooms, l_end, l_priv, ctl, persisted>>
  /\ UNCHANGED f_junk
  /\ UNCHANGED <<calcVars, arrowVars, unitVars>>

\* the key was missed: reserve a hash item by the usage counter
GroupReserve(g) ==
  /\ l_pc[g] = "reserve"
  /\ f_hash' = [f_hash EXCEPT !.usage = @ + 1]
  /\ l_pc' = [l_pc EXCEPT ![g] =
                IF HashItemFits(f_hash, f_hash.usage) THEN "insert"
                                                      ELSE "rollback"]
  /\ UNCHANGED <<kds_slot, kgpreagg, suspend_ctx, kds_final, l_nrooms, l_cur,
                 l_end, l_tab, l_priv, ctl, persisted, folded>>
  /\ UNCHANGED f_junk
  /\ UNCHANGED <<calcVars, arrowVars, unitVars>>

\* the reservation went over the capacity: give it back
GroupRollback(g) ==
  /\ l_pc[g] = "rollback"
  /\ f_hash' = [f_hash EXCEPT !.usage = @ - 1]
  /\ l_pc' = [l_pc EXCEPT ![g] = "retry"]
  /\ UNCHANGED <<kds_slot, kgpreagg, suspend_ctx, kds_final, l_nrooms, l_cur,
                 l_end, l_tab, l_priv, ctl, persisted, folded>>
  /\ UNCHANGED f_junk
  /\ UNCHANGED <<calcVars, arrowVars, unitVars>>

\* after a rollback, with a probe under the shared lock (taken and
\* released within the step), once no reservation is pending: the key has been
\* linked by another block meanwhile, or room has come free and the block
\* reserves again, or the table is full and the block has to suspend
GroupRetry(g) ==
  /\ l_pc[g] = "retry"
  /\ ~LockExclusiveHeld(f_hash)
  /\ LET off == l_cur[g]
         idx == GlobalFind(f_hash, kds_final, RowAt(off).key)
     IN  IF idx # UINT_MAX
         THEN /\ PlaceRow(g, off, kds_final, idx)
              /\ l_cur' = [l_cur EXCEPT ![g] = off + 1]
              /\ l_pc' = [l_pc EXCEPT ![g] = "row"]
              /\ kgpreagg' = [kgpreagg EXCEPT !.final_buffer_modified =
                                @ \/ (kds_final' # kds_final)]
         ELSE /\ f_hash.usage <= Len(kds_final)
              /\ l_pc' = [l_pc EXCEPT ![g] =
                            IF HashItemFits(f_hash, f_hash.usage)
                            THEN "reserve" ELSE "suspend"]
              /\ UNCHANGED <<l_tab, l_cur, kds_final, folded, kgpreagg>>
  /\ UNCHANGED <<kds_slot, suspend_ctx, f_hash, l_nrooms, l_end, l_priv, ctl,
                 persisted>>
  /\ UNCHANGED f_junk
  /\ UNCHANGED <<calcVars, arrowVars, unitVars>>

\* the reservation fits: take the exclusive lock, which waits until no
\* block holds the lock, shared or exclusive
GroupLock(g) ==
  /\ l_pc[g] = "insert"
  /\ f_hash.lock = 0
  /\ f_hash' = LockExclusive(f_hash)
  /\ l_pc' = [l_pc EXCEPT ![g] = "link"]
  /\ UNCHANGED <<kds_slot, kgpreagg, suspend_ctx, kds_final, l_nrooms, l_cur,
                 l_end, l_tab, l_priv, ctl, persisted, folded>>
  /\ UNCHANGED f_junk
  /\ UNCHANGED <<calcVars, arrowVars, unitVars>>

\* under the exclusive lock: probe once more; link the reserved item at the
\* head of its chain, or give the reservation back and release the lock if
\* the key has been linked meanwhile.  The row the item points to is still
\* memory that is not initialised
GroupInsert(g) ==
  /\ l_pc[g] = "link"
  /\ LET key == RowAt(l_cur[g]).key
         idx == GlobalFind(f_hash, kds_final, key)
         n   == Len(kds_final)
     IN  IF idx # UINT_MAX
         THEN /\ f_hash' = UnlockExclusive([f_hash EXCEPT !.usage = @ - 1])
              /\ l_pc' = [l_pc EXCEPT ![g] = "row"]
              /\ UNCHANGED f_junk
         ELSE /\ f_hash' = GlobalLink(f_hash, n, key)
              /\ l_pc' = [l_pc EXCEPT ![g] = "init"]
              /\ f_junk' \in JunkKeys
  /\ UNCHANGED <<kds_slot, kgpreagg, suspend_ctx, kds_final, l_nrooms, l_cur,
                 l_end, l_tab, l_priv, ctl, persisted, folded>>
  /\ UNCHANGED <<calcVars, arrowVars, unitVars>>

\* still under the exclusive lock: the group key is copied to the new row
\* and its accumulators are initialised (gpupreagg_init_final_slot); then
\* the lock is released.  The row itself is combined afterwards, under the
\* shared lock, like any other
GroupInit(g) ==
  /\ l_pc[g] = "init"
  /\ kds_final' = Append(kds_final,
                         AccRow(RowAt(l_cur[g]).key, gpupreagg_init_slot, {}))
  /\ f_junk' = "none"
  /\ f_hash' = UnlockExclusive(f_hash)
  /\ kgpreagg' = [kgpreagg EXCEPT !.final_buffer_modified = TRUE,
                                  !.num_groups = @ + 1]
  /\ l_pc' = [l_pc EXCEPT ![g] = "row"]
  /\ UNCHANGED <<kds_slot, suspend_ctx, l_nrooms, l_cur, l_end, l_tab, l_priv,
                 ctl, persisted, folded>>
  /\ UNCHANGED <<calcVars, arrowVars, unitVars>>

\* rows of the rooms that FinalMergeRooms found a row of kds_final for
MergedSrc(fh, final, rooms) ==
  RoomsSrc(SelectSeq(rooms, LAMBDA room : GlobalFind(fh, final, room.key) # UINT_MAX))

\* the block's local table is merged into kds_final by atomic operations,
\* under the shared lock (taken and released within the step), and emptied
FlushLocal(g) ==
  /\ ~LockExclusiveHeld(f_hash)
  /\ kds_final' = FinalMergeRooms(f_hash, kds_final, l_tab[g].rooms)
  /\ folded' = FoldedAdd(folded, MergedSrc(f_hash, kds_final, l_tab[g].rooms))
  /\ l_tab' = [l_tab EXCEPT ![g] = LocalEmpty]

\* end of a chunk: merge the local table, go to the block's next chunk
GroupChunkEnd(g) ==
  /\ l_pc[g] = "row"
  /\ l_cur[g] >= ChunkLimit(g)
  /\ FlushLocal(g)
  /\ kgpreagg' = [kgpreagg EXCEPT !.final_buffer_modified =
                    @ \/ (kds_final' # kds_final)]
  /\ IF NextChunk(g) >= NRows
     THEN /\ l_pc' = [l_pc EXCEPT ![g] = "exit"]
          /\ UNCHANGED <<l_cur, l_end>>
     ELSE /\ l_cur' = [l_cur EXCEPT ![g] = NextChunk(g)]
          /\ l_end' = [l_end EXCEPT ![g] = NextChunk(g) + kgpreagg.block_sz]
          /\ UNCHANGED l_pc
  /\ UNCHANGED <<kds_slot, suspend_ctx, f_hash, l_nrooms, l_priv, ctl, persisted>>
  /\ UNCHANGED f_junk
  /\ UNCHANGED <<calcVars, arrowVars, unitVars>>

\* the block suspends: merge the local table, save the cursor in the
\* block's suspend context, count the suspended block
GroupSuspend(g) ==
  /\ l_pc[g] = "suspend"
  /\ FlushLocal(g)
  /\ LET ctx == KERN_GPUPREAGG_SUSPEND_CONTEXT(kgpreagg, g)
     IN  suspend_ctx' = IF ctx = <<>> THEN suspend_ctx
                        ELSE [suspend_ctx EXCEPT
                                ![SuspendEntry(kgpreagg, ctx)] = <<l_cur[g]>>]
  /\ kgpreagg' = [kgpreagg EXCEPT !.suspend_count = @ + 1,
                                  !.final_buffer_modified =
                                     @ \/ (kds_final' # kds_final)]
  /\ l_pc' = [l_pc EXCEPT ![g] = "stopped"]
  /\ UNCHANGED <<kds_slot, f_hash, l_nrooms, l_cur, l_end, l_priv, ctl, persisted>>
  /\ UNCHANGED f_junk
  /\ UNCHANGED <<calcVars, arrowVars, unitVars>>

\* nogroup reduction, one row: fold it into the private accumulators,
\* unless its evaluation raises a fault
NoGroupRow(g) ==
  /\ l_pc[g] = "nrow"
  /\ l_cur[g] < ChunkLimit(g)
  /\ IF RowAt(l_cur[g]).errcode # 0
     THEN /\ l_pc' = [l_pc EXCEPT ![g] = "error"]
          /\ UNCHANGED <<l_priv, l_cur>>
     ELSE /\ l_priv' = [l_priv EXCEPT ![g] =
               AccRow(@.key,
                      gpupreagg_update_normal(@.acc,
                                              gpupreagg_projection_row(RowAt(l_cur[g]))),
                      @.src \cup {l_cur[g]})]
          /\ l_cur' = [l_cur EXCEPT ![g] = @ + 1]
          /\ UNCHANGED l_pc
  /\ UNCHANGED <<kds_slot, kgpreagg, suspend_ctx, f_hash, kds_final, l_nrooms,
                 l_end, l_tab, ctl, persisted, folded>>
  /\ UNCHANGED f_junk
  /\ UNCHANGED <<calcVars, arrowVars, unitVars>>

\* the block leaves the kernel function after a fault:
\* kern_writeback_error_status(&kgpreagg->kerror, &u.kcxt)
LaneWriteback(g) ==
  /\ l_pc[g] = "error"
  /\ kgpreagg' = [kgpreagg EXCEPT !.kerror =
                    kern_writeback_error_status(@, RowAt(l_cur[g]).errcode)]
  /\ l_pc' = [l_pc EXCEPT ![g] = "exit"]
  /\ UNCHANGED <<kds_slot, suspend_ctx, f_hash, kds_final, l_nrooms, l_cur,
                 l_end, l_tab, l_priv, ctl, persisted, folded>>
  /\ UNCHANGED f_junk
  /\ UNCHANGED <<calcVars, arrowVars, unitVars>>

\* nogroup reduction, end of a chunk: go to the next chunk, or merge the
\* private accumulators into the single row of kds_final
NoGroupChunkEnd(g) ==
  /\ l_pc[g] = "nrow"
  /\ l_cur[g] >= ChunkLimit(g)
  /\ IF NextChunk(g) >= NRows
     THEN /\ kds_final' = FinalCombine(kds_final, 0, l_priv[g].acc, l_priv[g].src)
          /\ folded' = FoldedAdd(folded, l_priv[g].src)
          /\ kgpreagg' = [kgpreagg EXCEPT !.final_buffer_modified = TRUE]
          /\ l_pc' = [l_pc EXCEPT ![g] = "exit"]
          /\ UNCHANGED <<l_cur, l_end>>
     ELSE /\ l_cur' = [l_cur EXCEPT ![g] = NextChunk(g)]
          /\ l_end' = [l_end EXCEPT ![g] = NextChunk(g) + kgpreagg.block_sz]
          /\ UNCHANGED <<kds_final, folded, kgpreagg, l_pc>>
  /\ UNCHANGED <<kds_slot, suspend_ctx, f_hash, l_nrooms, l_tab, l_priv, ctl,
                 persisted>>
  /\ UNCHANGED f_junk
  /\ UNCHANGED <<calcVars, arrowVars, unitVars>>

\* every block has finished or suspended: the launch ends, and the caller
\* reads the error status, then suspend_count; a launch that ends with an
\* error status has failed, and its final buffer is not taken
HostSync ==
  /\ ctl = "RUNNING"
  /\ \A g \in Blocks : l_pc[g] \in {"exit", "stopped"}
  /\ ctl' = IF kgpreagg.kerror.errcode # 0 THEN "FAILED"
            ELSE IF kgpreagg.suspend_count > 0 THEN "SUSPENDED" ELSE "DONE"
  /\ UNCHANGED <<kds_slot, kgpreagg, suspend_ctx, f_hash, kds_final, l_nrooms,
                 l_pc, l_cur, l_end, l_tab, l_priv, persisted, folded>>
  /\ UNCHANGED f_junk
  /\ UNCHANGED <<calcVars, arrowVars, unitVars>>

\* the caller drains the final buffer, clears it and the hash table, resets
\* the control block for a resume and launches the kernel again
HostResume ==
  /\ ctl = "SUSPENDED"
  /\ persisted' = persisted \o kds_final
  /\ kds_final' = <<>>
  /\ f_hash' = GlobalHashSlot(f_hash.nslots, HashSlotRooms(f_hash))
  /\ kgpreagg' = gpupreagg_reset_kernel_task(kgpreagg, TRUE)
  /\ l_pc' = [g \in Blocks |-> "entry"]
  /\ ctl' = "RESUMING"
  /\ UNCHANGED <<kds_slot, suspend_ctx, l_nrooms, l_cur, l_end, l_tab, l_priv,
                 folded>>
  /\ UNCHANGED f_junk
  /\ UNCHANGED <<calcVars, arrowVars, unitVars>>

vars == <<calcVars, pipeVars, arrowVars, unitVars>>

CalcNext ==
  \/ \E t \in Threads : CalcNormal(t)
  \/ CalcShuffle
  \/ \E t \in Threads : CalcMergeBegin(t)
  \/ \E t \in Threads : CalcMergeCas(t)
  \/ \E t \in Threads : CalcMergeStore(t)

SpecCalc == CalcInit /\ [][CalcNext]_vars

\* the steps of thread t; the device runs every thread of the warp
CalcThreadStep(t) ==
  \/ CalcNormal(t) \/ CalcMergeBegin(t) \/ CalcMergeCas(t) \/ CalcMergeStore(t)

\* the runs whose termination is checked: the minimum of floats and the
\* maximum of doubles, one loop on a 32-bit and one on a 64-bit word
CalcLiveInit == CalcInit /\ c_kind \in {"min_float", "max_double"}

SpecCalcLive ==
  /\ CalcLiveInit
  /\ [][CalcNext]_vars
  /\ \A t \in Threads : WF_vars(CalcThreadStep(t))
  /\ WF_vars(CalcShuffle)

CalcAllDone == c_kind # "none" /\ \A t \in Threads : c_pc[t] = "done"

\* the single-threaded reference: the new values folded in thread order by
\* the normal operation
RECURSIVE CalcRefFold(_, _)
CalcRefFold(kind, n) ==
  IF n = 0 THEN aggcalc_init(kind)
  ELSE aggcalc_normal(kind, CalcRefFold(kind, n - 1), c_in[n])

PipeNext ==
  \/ \E g \in Blocks : LaneEntry(g)
  \/ \E g \in Blocks : GroupRow(g)
  \/ \E g \in Blocks : GroupProbe(g)
  \/ \E g \in Blocks : GroupReserve(g)
  \/ \E g \in Blocks : GroupRollback(g)
  \/ \E g \in Blocks : GroupRetry(g)
  \/ \E g \in Blocks : GroupLock(g)
  \/ \E g \in Blocks : GroupInsert(g)
  \/ \E g \in Blocks : GroupInit(g)
  \/ \E g \in Blocks : GroupChunkEnd(g)
  \/ \E g \in Blocks : GroupSuspend(g)
  \/ \E g \in Blocks : NoGroupRow(g)
  \/ \E g \in Blocks : NoGroupChunkEnd(g)
  \/ \E g \in Blocks : LaneWriteback(g)
  \/ HostSync
  \/ HostResume

Spec == PipeInit /\ [][PipeNext]_vars

\* the steps of block g; the hardware runs every block of the grid, and the
\* caller waits for the end of the launch
LaneStep(g) ==
  /\ g \in Blocks
  /\ \/ LaneEntry(g) \/ GroupRow(g) \/ GroupProbe(g) \/ GroupReserve(g)
     \/ GroupRollback(g) \/ GroupRetry(g) \/ GroupLock(g) \/ GroupInsert(g)
     \/ GroupInit(g)
     \/ GroupChunkEnd(g) \/ GroupSuspend(g)
     \/ NoGroupRow(g) \/ NoGroupChunkEnd(g) \/ LaneWriteback(g)

AllBlocks == {n - 1 : n \in GridSizes}

\* the launches whose termination is checked: two keys, final buffers of
\* one or two rooms, with and without a local table
LiveInit == PipeInitOver({"A", "B"}, {1, 2}, {0, 1})

SpecLive ==
  /\ LiveInit
  /\ [][PipeNext]_vars
  /\ \A g \in AllBlocks : WF_vars(LaneStep(g))
  /\ WF_vars(HostSync)

(* ---------------------------------------------------------------------- *)
(* Properties of the combine library                                       *)
(* ---------------------------------------------------------------------- *)

\* C2: for a fixed multiset of new values, every order in which the threads
\* apply the integer min, max and add merges to the shared accumulator ends
\* with the value (and class) the single-threaded fold of the same values
\* gives.
C2_IntegerMergeOrderIndependent ==
  (CalcAllDone /\ c_kind \in IntKinds) =>
    LET ref == CalcRefFold(c_kind, NThreads)
    IN  /\ c_acc.dclass = ref.dclass
        /\ AccumView(c_kind, c_acc.datum) = AccumView(c_kind, ref.datum)

\* a wrapped int sum, reached through concurrent merges of distinct values
C2_Witness ==
  /\ CalcAllDone
  /\ c_kind = "add_int"
  /\ c_in[1] = Slot(DATUM_CLASS__NORMAL, DatumOfInt(INT_MAX))
  /\ c_in[2] = Slot(DATUM_CLASS__NORMAL, DatumOfInt(1))
  /\ c_in[3].dclass = DATUM_CLASS__NULL
  /\ c_acc.datum.lo = INT_MIN

\* the threads whose non-NULL new value has been merged (the call returned)
CalcMerged == {t \in Threads : c_pc[t] = "done"
                               /\ c_in[t].dclass = DATUM_CLASS__NORMAL}

\* C4: a NULL new value changes neither the value nor the class of the
\* accumulator, in the normal, the shuffle and the atomic merge operation of
\* every kind; an accumulator is NORMAL exactly when a non-NULL value has
\* been combined into it, and a NORMAL accumulator never becomes NULL again.
C4_NullStep ==
  /\ \A t \in Threads :
       (c_pc[t] = "start" /\ c_pc'[t] = "sync"
        /\ c_in[t].dclass = DATUM_CLASS__NULL) => c_priv'[t] = c_priv[t]
  /\ \A t \in Threads :
       (c_pc[t] = "sync" /\ c_pc'[t] = "merge"
        /\ c_priv[ShuffleLane(t)].dclass = DATUM_CLASS__NULL)
          => c_priv'[t] = c_priv[t]
  /\ \A t \in Threads :
       (c_pc[t] = "merge" /\ c_pc'[t] # "merge"
        /\ c_in[t].dclass = DATUM_CLASS__NULL) => c_acc' = c_acc
  /\ c_acc.dclass = DATUM_CLASS__NORMAL => c_acc'.dclass = DATUM_CLASS__NORMAL
  /\ \A t \in Threads :
       c_priv[t].dclass = DATUM_CLASS__NORMAL
         => c_priv'[t].dclass = DATUM_CLASS__NORMAL

C4_ClassState ==
  c_kind # "none" =>
    /\ (c_acc.dclass = DATUM_CLASS__NORMAL) = (CalcMerged # {})
    /\ \A t \in Threads :
         /\ c_pc[t] = "sync" =>
              (c_priv[t].dclass = DATUM_CLASS__NORMAL)
                = (c_in[t].dclass = DATUM_CLASS__NORMAL)
         /\ c_pc[t] \notin {"start", "sync"} =>
              (c_priv[t].dclass = DATUM_CLASS__NORMAL)
                = (\/ c_in[t].dclass = DATUM_CLASS__NORMAL
                   \/ c_in[ShuffleLane(t)].dclass = DATUM_CLASS__NORMAL)

C4_NullNeverAlters == [][C4_NullStep]_vars /\ []C4_ClassState

\* a NULL has been merged beside a non-NULL value, and a NULL was shuffled in
C4_Witness ==
  /\ CalcAllDone
  /\ c_in[1].dclass = DATUM_CLASS__NULL
  /\ c_in[2].dclass = DATUM_CLASS__NORMAL
  /\ c_in[3].dclass = DATUM_CLASS__NULL
  /\ c_acc.dclass = DATUM_CLASS__NORMAL
  /\ c_priv[3].dclass = DATUM_CLASS__NULL

\* the accumulator holds exactly v: the same bits as its kind reads them,
\* or, for the floating kinds, a value that compares equal to v
HoldsValue(kind, accum, v) ==
  /\ accum.dclass = DATUM_CLASS__NORMAL
  /\ \/ AccumView(kind, accum.datum) = AccumView(kind, v)
     \/ kind \in FloatWordKinds /\ FltEq(accum.datum.lo, v.lo)
     \/ kind \in DoubleKinds /\ DblEq(accum.datum, v)

\* C5: init leaves the accumulator NULL, and the output of init combined
\* with a single non-NULL value v, by the normal or by the atomic merge
\* operation, holds exactly v, for every kind.
C5_InitIsIdentity ==
  c_kind # "none" =>
    /\ \A t \in Threads :
         /\ c_pc[t] = "start" => c_priv[t].dclass = DATUM_CLASS__NULL
         /\ (c_pc[t] = "sync" /\ c_in[t].dclass = DATUM_CLASS__NORMAL)
              => HoldsValue(c_kind, c_priv[t], c_in[t].datum)
    /\ (\A t \in Threads : c_pc[t] \in {"start", "sync", "merge"})
         => c_acc = aggcalc_init(c_kind)
    /\ \A t \in Threads :
         (/\ CalcMerged = {t}
          /\ \A u \in Threads \ {t} :
               \/ c_pc[u] \in {"start", "sync", "merge"}
               \/ c_in[u].dclass = DATUM_CLASS__NULL)
           => HoldsValue(c_kind, c_acc, c_in[t].datum)

(* ---------------------------------------------------------------------- *)
(* Properties of the kernel task                                           *)
(* ---------------------------------------------------------------------- *)

\* what a single-threaded aggregator computes for the input rows in S
RECURSIVE RefSumTo(_, _)
RefSumTo(S, n) ==
  IF n = 0 THEN 0
  ELSE RefSumTo(S, n - 1)
       + (IF (n - 1) \in S /\ RowAt(n - 1).x.dclass = DATUM_CLASS__NORMAL
          THEN RowAt(n - 1).x.datum.lo ELSE 0)

RECURSIVE RefMaxTo(_, _)
RefMaxTo(S, n) ==
  IF n = 0 THEN INT_MIN
  ELSE LET m == RefMaxTo(S, n - 1)
       IN  IF /\ (n - 1) \in S
              /\ RowAt(n - 1).x.dclass = DATUM_CLASS__NORMAL
              /\ RowAt(n - 1).x.datum.lo > m
           THEN RowAt(n - 1).x.datum.lo ELSE m

RefHasValue(S) == \E off \in S : RowAt(off).x.dclass = DATUM_CLASS__NORMAL

\* the accumulators acc hold count(*), sum(x) and max(x) of the rows in S
MatchesRef(acc, S) ==
  /\ acc[1].dclass = DATUM_CLASS__NORMAL
  /\ acc[1].datum.lo = Cardinality(S)
  /\ IF RefHasValue(S)
     THEN /\ acc[2].dclass = DATUM_CLASS__NORMAL
          /\ acc[2].datum.lo = RefSumTo(S, NRows)
          /\ acc[3].dclass = DATUM_CLASS__NORMAL
          /\ acc[3].datum.lo = RefMaxTo(S, NRows)
     ELSE /\ acc[2].dclass = DATUM_CLASS__NULL
          /\ acc[3].dclass = DATUM_CLASS__NULL

RowsOfKey(key) == {off \in RowOffsets : RowAt(off).key = key}
InputKeys == {RowAt(off).key : off \in RowOffsets}

\* everything the caller has got: the drained rows and the final buffer
ResultRows == persisted \o kds_final

\* sum of the NORMAL values of column c over the rows of seq
RECURSIVE ColumnSum(_, _)
ColumnSum(seq, c) ==
  IF seq = <<>> THEN 0
  ELSE (IF Head(seq).acc[c].dclass = DATUM_CLASS__NORMAL
        THEN Head(seq).acc[c].datum.lo ELSE 0) + ColumnSum(Tail(seq), c)

PartialRows(key) == SelectSeq(ResultRows, LAMBDA r : r.key = key)

\* no row of the batch raises an evaluation fault
Faultless == \A off \in RowOffsets : RowAt(off).errcode = 0

\* a groupby, a nogroup reduction over a batch without faults; what a
\* fault does to a launch is stated on its own (C13)
GroupBy == ctl # "none" /\ kgpreagg.num_group_keys > 0 /\ Faultless
NoGroup == ctl # "none" /\ kgpreagg.num_group_keys = 0 /\ Faultless

RowsIntact(seq) ==
  /\ \A i, j \in 1..Len(seq) : seq[i].key = seq[j].key => i = j
  /\ \A i \in 1..Len(seq) :
       /\ seq[i].src \subseteq RowsOfKey(seq[i].key)
       /\ IF seq[i].src = {} THEN seq[i].acc = gpupreagg_init_slot
                             ELSE MatchesRef(seq[i].acc, seq[i].src)

C7_NoGroupCount ==
  (NoGroup /\ ctl = "DONE") =>
    /\ Len(kds_final) = 1
    /\ kds_final[1].acc[1].dclass = DATUM_CLASS__NORMAL
    /\ kds_final[1].acc[1].datum.lo = NRows

C7_Witness ==
  /\ NoGroup
  /\ ctl = "DONE"
  /\ kgpreagg.grid_sz = 2
  /\ kgpreagg.block_sz = 1
  /\ kds_final[1].acc[1].datum.lo = NRows
  /\ kds_final[1].src = RowOffsets

\* two keys of the input share a bucket of the local or of the global table
SameBucket(k1, k2) ==
  \/ gpupreagg_hashvalue(k1) % GPUPREAGG_LOCAL_HASH_NSLOTS
       = gpupreagg_hashvalue(k2) % GPUPREAGG_LOCAL_HASH_NSLOTS
  \/ gpupreagg_hashvalue(k1) % f_hash.nslots
       = gpupreagg_hashvalue(k2) % f_hash.nslots

\* C8: keys that share a bucket are kept apart: no room of a local table
\* and no row of the final buffer ever combines a row of another key, and
\* after a reduction without suspension two distinct keys of one bucket
\* have two separate rows, each with the aggregates of its own rows.
C8_CollisionKeepsGroupsApart ==
  GroupBy =>
    /\ \A i \in 1..Len(kds_final) :
         kds_final[i].src \subseteq RowsOfKey(kds_final[i].key)
    /\ \A g \in Blocks : \A i \in 1..Len(l_tab[g].rooms) :
         l_tab[g].rooms[i].src \subseteq RowsOfKey(l_tab[g].rooms[i].key)
    /\ (ctl = "DONE" /\ persisted = <<>>) =>
         \A k1, k2 \in InputKeys :
           (k1 # k2 /\ SameBucket(k1, k2)) =>
             \E i, j \in 1..Len(kds_final) :
               /\ i # j
               /\ kds_final[i].key = k1
               /\ kds_final[j].key = k2
               /\ MatchesRef(kds_final[i].acc, RowsOfKey(k1))
               /\ MatchesRef(kds_final[j].acc, RowsOfKey(k2))

\* "A" and "C" have one hash value: both went through a local table and
\* ended in two rows of the final buffer
C8_Witness ==
  /\ GroupBy
  /\ ctl = "DONE"
  /\ persisted = <<>>
  /\ l_nrooms = 2
  /\ InputKeys = {"A", "C"}
  /\ Len(kds_final) = 2
  /\ Cardinality(RowsOfKey("A")) = 2

\* C9: the controller changes state only along RUNNING -> SUSPENDED ->
\* RESUMING -> RUNNING -> DONE: to SUSPENDED only from RUNNING with a block
\* stopped at a group the full table does not hold, to RESUMING only from
\* SUSPENDED by a relaunch with resume_context set, to RUNNING only from
\* RESUMING, and to DONE only from RUNNING with the whole input consumed
\* (a launch that ends with an error status leaves the controller: FAILED).
C9_ControllerStep ==
  (ctl' # ctl) =>
    \/ /\ ctl = "RUNNING" /\ ctl' = "SUSPENDED"
       /\ Len(kds_final) = HashSlotRooms(f_hash)
       /\ \E g \in Blocks :
            /\ l_pc[g] = "stopped"
            /\ suspend_ctx[g] = <<l_cur[g]>>
            /\ GlobalFind(f_hash, kds_final, RowAt(l_cur[g]).key) = UINT_MAX
    \/ /\ ctl = "SUSPENDED" /\ ctl' = "RESUMING"
       /\ kgpreagg'.resume_context
       /\ kgpreagg'.suspend_count = 0
       /\ \A g \in Blocks : l_pc'[g] = "entry"
    \/ /\ ctl = "RESUMING" /\ ctl' = "RUNNING"
       /\ \A g \in Blocks : l_pc'[g] # "entry"
    \/ /\ ctl = "RUNNING" /\ ctl' = "DONE"
       /\ \A g \in Blocks : l_pc[g] = "exit"
       /\ \A off \in RowOffsets : folded[off] >= 1
    \/ /\ ctl = "RUNNING" /\ ctl' = "FAILED"
       /\ kgpreagg.kerror.errcode # 0

C9_ControllerStateMachine == [][C9_ControllerStep]_vars

\* the controller went through two suspensions before it was done
C9_Witness ==
  /\ GroupBy
  /\ ctl = "DONE"
  /\ Len(persisted) >= 2
  /\ HashSlotRooms(f_hash) = 1
  /\ kgpreagg.resume_context

\* block g has read every row of its share of the batch
ShareFinished(g) == l_cur[g] >= ChunkLimit(g) /\ NextChunk(g) >= NRows

\* at the end of a launch every block has finished its share or has
\* suspended with its cursor saved, and a suspended block goes with
\* final_buffer_modified and suspend_count > 0
LaunchEndState ==
  ctl \in {"SUSPENDED", "DONE"} =>
    \A g \in Blocks :
      \/ l_pc[g] = "exit" /\ ShareFinished(g)
      \/ /\ l_pc[g] = "stopped"
         /\ suspend_ctx[g] = <<l_cur[g]>>
         /\ kgpreagg.final_buffer_modified
         /\ kgpreagg.suspend_count > 0

\* C10: every launch comes to its end, with every block finished or
\* suspended; a launch in which a block suspended ends with
\* final_buffer_modified and suspend_count > 0.
C10_LaunchTerminates ==
  /\ (ctl \in {"RUNNING", "RESUMING"}) ~> (ctl \in {"SUSPENDED", "DONE", "FAILED"})
  /\ []LaunchEndState

\* a resumed launch that ended with one block finished and one suspended
C10_Witness ==
  /\ ctl = "SUSPENDED"
  /\ kgpreagg.resume_context
  /\ kgpreagg.final_buffer_modified
  /\ kgpreagg.suspend_count = 1
  /\ \E g, h \in Blocks : l_pc[g] = "stopped" /\ l_pc[h] = "exit"

(* ---------------------------------------------------------------------- *)
(* Reservation, lock and local table of the groupby reduction              *)
(* ---------------------------------------------------------------------- *)

\* block g has taken its step from position from
Stepped(g, from) == l_pc[g] = from /\ l_pc'[g] # from

\* blocks that hold a reservation which is neither linked nor given back
Reserving ==
  {g \in Blocks : l_pc[g] \in {"insert", "link", "init", "rollback"}}

\* the usage counter counts the rows of the final buffer and the pending
\* reservations; with no rollback pending it is within the capacity; a
\* block that reports the exhausted capacity has set no error status
C11_UsageState ==
  GroupBy =>
    /\ f_hash.usage = Len(kds_final) + Cardinality(Reserving)
    /\ Len(kds_final) <= HashSlotRooms(f_hash)
    /\ (\A g \in Blocks : l_pc[g] # "rollback")
         => f_hash.usage <= HashSlotRooms(f_hash)
    /\ \A g \in Blocks :
         l_pc[g] \in {"suspend", "stopped"} => kgpreagg.kerror.errcode = 0

\* a reservation is an increment of usage; it goes to the rollback exactly
\* when the counter already was at the capacity; the reservation and its
\* rollback write no row and no hash item; the report to the controller is
\* the saved cursor and the suspend counter, and leaves the error status,
\* the rows and the hash items alone
C11_ReservationStep ==
  GroupBy =>
    \A g \in Blocks :
      /\ Stepped(g, "reserve") =>
           /\ f_hash'.usage = f_hash.usage + 1
           /\ (l_pc'[g] = "rollback") = (f_hash.usage >= HashSlotRooms(f_hash))
           /\ (l_pc'[g] = "insert") = (f_hash.usage < HashSlotRooms(f_hash))
           /\ f_hash'.mem = f_hash.mem /\ kds_final' = kds_final
      /\ Stepped(g, "rollback") =>
           /\ f_hash'.usage = f_hash.usage - 1
           /\ l_pc'[g] = "retry"
           /\ f_hash'.mem = f_hash.mem /\ kds_final' = kds_final
           /\ kgpreagg' = kgpreagg
      /\ (Stepped(g, "retry") /\ l_pc'[g] = "suspend") =>
           /\ Len(kds_final) = HashSlotRooms(f_hash)
           /\ UNCHANGED <<f_hash, kds_final, kgpreagg>>
      /\ Stepped(g, "suspend") =>
           /\ l_pc'[g] = "stopped"
           /\ kgpreagg'.suspend_count = kgpreagg.suspend_count + 1
           /\ kgpreagg'.kerror.errcode = 0
           /\ suspend_ctx'[g] = <<l_cur[g]>>
           /\ f_hash' = f_hash
           /\ Len(kds_final') = Len(kds_final)

FinalRowsOf(key) == {i \in 1..Len(kds_final) : kds_final[i].key = key}

\* the final buffer holds at most one row of a key, each row is found by
\* the chain of its bucket, each row holds the combined rows of its own key
\* only, and a row folded into the final buffer is in the row of its key;
\* at the end of a reduction that never suspended, the one row of each key
\* holds the contribution of every row of that key
C12_OneRowState ==
  GroupBy =>
    /\ \A key \in GroupKeys : Cardinality(FinalRowsOf(key)) <= 1
    /\ (\A g \in Blocks : l_pc[g] # "init") =>
         \A i \in 1..Len(kds_final) :
           GlobalFind(f_hash, kds_final, kds_final[i].key) = i - 1
    /\ RowsIntact(kds_final)
    /\ \A off \in RowOffsets :
         folded[off] = 1 =>
           Cardinality({i \in 1..Len(ResultRows) : off \in ResultRows[i].src}) = 1
    /\ (ctl = "DONE" /\ ~kgpreagg.resume_context) =>
         \A key \in InputKeys :
           \E i \in FinalRowsOf(key) : kds_final[i].src = RowsOfKey(key)

\* the steps under the exclusive lock create the row of a key exactly when
\* the final buffer does not hold the key yet, with initial accumulators;
\* else the block gives its reservation back and creates nothing
C12_LinkStep ==
  GroupBy =>
    \A g \in Blocks :
      LET key == RowAt(l_cur[g]).key
      IN  /\ Stepped(g, "link") =>
                /\ kds_final' = kds_final
                /\ IF FinalRowsOf(key) # {}
                   THEN /\ f_hash'.usage = f_hash.usage - 1
                        /\ f_hash'.mem = f_hash.mem
                        /\ l_pc'[g] = "row"
                   ELSE /\ f_hash'.usage = f_hash.usage
                        /\ l_pc'[g] = "init"
          /\ Stepped(g, "init") =>
                /\ FinalRowsOf(key) = {}
                /\ kds_final' = Append(kds_final,
                                       AccRow(key, gpupreagg_init_slot, {}))
                /\ f_hash'.usage = f_hash.usage
                /\ f_hash'.mem = f_hash.mem

Committed == IF ctl = "DONE" THEN ResultRows ELSE persisted

\* rows of the batch whose evaluation raises a fault
FaultRows == {off \in RowOffsets : RowAt(off).errcode # 0}

\* input rows that were combined into some accumulator, wherever it is
CombinedRows ==
  UNION ({ResultRows[i].src : i \in 1..Len(ResultRows)}
         \cup {l_priv[g].src : g \in Blocks}
         \cup {RoomsSrc(l_tab[g].rooms) : g \in Blocks})

\* the error status holds nothing but the error of a faulting row; a
\* launch that ended with the error status set has failed and a failed
\* launch has the error status set; the batch is never done; the
\* faulting row has not been combined into anything, as NULL or otherwise
C13_FaultState ==
  (ctl # "none" /\ ~Faultless) =>
    /\ ctl # "DONE"
    /\ (ctl = "FAILED") = (ctl \notin {"RUNNING", "RESUMING"}
                           /\ kgpreagg.kerror.errcode # 0)
    /\ kgpreagg.kerror.errcode # 0 =>
         \E off \in FaultRows : kgpreagg.kerror.errcode = RowAt(off).errcode
    /\ FaultRows \cap CombinedRows = {}
    /\ \A off \in FaultRows : folded[off] = 0

\* the fault of a row ends the row with nothing combined; the write-back
\* sets the shared error status; once set it stays, the caller takes no
\* final buffer of the launch, and the launch can only end as failed
C13_FaultStep ==
  ctl # "none" =>
    /\ \A g \in Blocks :
         /\ (/\ Stepped(g, "row") \/ Stepped(g, "nrow")
             /\ l_cur[g] < ChunkLimit(g)
             /\ l_cur[g] \in FaultRows) =>
              /\ l_pc'[g] = "error"
              /\ UNCHANGED <<kds_final, f_hash, l_tab, l_priv, folded, l_cur>>
         /\ Stepped(g, "error") =>
              /\ kgpreagg'.kerror.errcode # 0
              /\ l_pc'[g] = "exit"
    /\ kgpreagg.kerror.errcode # 0 =>
         /\ kgpreagg'.kerror = kgpreagg.kerror
         /\ persisted' = persisted
         /\ ctl' \notin {"SUSPENDED", "DONE"}
         /\ (ctl = "RUNNING" /\ ctl' # ctl) => ctl' = "FAILED"

\* C13: a fault raised for a row sets the shared error status; a launch
\* whose error status is set is reported as failed as a whole, its final
\* buffer is never taken by the caller as a partial result, and the
\* faulting row is not turned into a NULL that is combined.
C13_FaultFailsLaunch == []C13_FaultState /\ [][C13_FaultStep]_vars

\* a launch of two blocks failed after rows had reached its final buffer,
\* and the caller has taken none of them
C13_Witness ==
  /\ ctl = "FAILED"
  /\ kgpreagg.grid_sz = 2
  /\ kgpreagg.num_group_keys > 0
  /\ \E i \in 1..Len(kds_final) : kds_final[i].src # {}
  /\ Committed = persisted
  /\ kgpreagg.final_buffer_modified

(* ---------------------------------------------------------------------- *)
(* The local hash table of a block                                         *)
(* ---------------------------------------------------------------------- *)

\* the local table of block g has no free room
LocalFull(g) == l_tab[g].nitems >= l_nrooms

\* keys the rooms of the local table of block g hold
LocalKeys(g) == {l_tab[g].rooms[r].key : r \in 1..Len(l_tab[g].rooms)}

\* a local table never holds more than its rooms; no error status is set;
\* a block suspends only at a full final buffer, whatever its local table;
\* when the batch is done every row is in a result row
C14_LocalState ==
  GroupBy =>
    /\ \A g \in Blocks : l_tab[g].nitems <= l_nrooms
    /\ kgpreagg.kerror.errcode = 0
    /\ \A g \in Blocks :
         l_pc[g] \in {"suspend", "stopped"}
           => Len(kds_final) = HashSlotRooms(f_hash)
    /\ ctl = "DONE" =>
         \A off \in RowOffsets :
           \E i \in 1..Len(ResultRows) : off \in ResultRows[i].src

\* a row whose key is in the final buffer but not in the full local table
\* is combined into its row of the final buffer by that step; the local
\* table is left alone, and the block goes on with its next row
C14_OverflowStep ==
  GroupBy =>
    \A g \in Blocks :
      (Stepped(g, "probe") /\ LocalFull(g)
       /\ FinalRowsOf(RowAt(l_cur[g]).key) # {}) =>
        LET off == l_cur[g]
            i   == CHOOSE i \in FinalRowsOf(RowAt(off).key) : TRUE
        IN  /\ kds_final'[i].src = kds_final[i].src \cup {off}
            /\ MatchesRef(kds_final'[i].acc, kds_final'[i].src)
            /\ folded'[off] = folded[off] + 1
            /\ l_tab' = l_tab
            /\ l_pc'[g] = "row" /\ l_cur'[g] = off + 1
            /\ kgpreagg'.kerror.errcode = 0
            /\ kgpreagg'.suspend_count = kgpreagg.suspend_count

\* C14: with no free room in the local table of its block, a row of a new
\* key goes to the global table directly and still counts in the result;
\* a full local table sets no error status and is no reason to suspend.
C14_LocalOverflowFallsThrough == []C14_LocalState /\ [][C14_OverflowStep]_vars

\* a block whose one local room holds a key has sent a row of another key
\* of the same chunk to the final buffer, and no block has suspended
C14_Witness ==
  /\ GroupBy
  /\ l_nrooms = 1
  /\ kgpreagg.suspend_count = 0 /\ ~kgpreagg.resume_context
  /\ \E g \in Blocks :
       /\ l_tab[g].nitems = 1
       /\ \E i \in 1..Len(kds_final) :
            /\ kds_final[i].key \notin LocalKeys(g)
            /\ \E off \in kds_final[i].src :
                 off < l_cur[g] /\ off >= l_end[g] - kgpreagg.block_sz

\* the step of block g merges its local table: the end of a chunk, or the
\* suspension of the block
FlushStepped(g) ==
  \/ Stepped(g, "suspend")
  \/ l_pc[g] = "row" /\ l_cur[g] >= ChunkLimit(g)
     /\ (l_pc'[g] # "row" \/ l_cur'[g] # l_cur[g] \/ l_end'[g] # l_end[g])

\* rows held in a local room have not reached the final buffer yet; every
\* room holds the combined rows of its own key; the local table of a block
\* that has finished or suspended is empty
C15_LocalRoomsState ==
  GroupBy =>
    \A g \in Blocks :
      /\ \A r \in 1..Len(l_tab[g].rooms) :
           LET room == l_tab[g].rooms[r]
           IN  /\ room.src # {}
               /\ room.src \subseteq RowsOfKey(room.key)
               /\ MatchesRef(room.acc, room.src)
               /\ \A off \in room.src : folded[off] = 0
               /\ \A h \in Blocks \ {g} :
                    room.src \cap RoomsSrc(l_tab[h].rooms) = {}
               /\ \A q \in 1..Len(l_tab[g].rooms) :
                    l_tab[g].rooms[q].key = room.key => q = r
      /\ Len(l_tab[g].rooms) = l_tab[g].nitems
      /\ l_pc[g] \in {"exit", "stopped"} => l_tab[g] = LocalEmpty

\* the merge puts the rows of every occupied room into the row of the
\* room's key in the final buffer, each row once, and empties the table
C15_FlushStep ==
  GroupBy =>
    \A g \in Blocks :
      FlushStepped(g) =>
        /\ l_tab'[g] = LocalEmpty
        /\ Len(kds_final') = Len(kds_final)
        /\ \A r \in 1..Len(l_tab[g].rooms) :
             LET room == l_tab[g].rooms[r]
             IN  /\ FinalRowsOf(room.key) # {}
                 /\ \A i \in FinalRowsOf(room.key) :
                      /\ kds_final[i].src \cap room.src = {}
                      /\ kds_final'[i].src = kds_final[i].src \cup room.src
                      /\ MatchesRef(kds_final'[i].acc, kds_final'[i].src)
        /\ \A off \in RowOffsets :
             folded'[off] = IF off \in RoomsSrc(l_tab[g].rooms)
                            THEN 1 ELSE folded[off]
        /\ \A i \in 1..Len(kds_final) :
             kds_final[i].key \notin LocalKeys(g) => kds_final'[i] = kds_final[i]

Digits16(d) ==
  <<d.lo % 65536, (d.lo \div 65536) % 65536,
    d.hi % 65536, (d.hi \div 65536) % 65536>>

\* digit-wise sum with carry, the carry out of the last digit dropped: the
\* sum of the two unsigned numbers modulo 2^(16 * n)
RECURSIVE DigitsAdd(_, _, _, _)
DigitsAdd(x, y, i, carry) ==
  IF i > Len(x) THEN <<>>
  ELSE LET s == x[i] + y[i] + carry
       IN  <<s % 65536>> \o DigitsAdd(x, y, i + 1, s \div 65536)

\* the digits an accumulator of the kind holds: 2 for int, 4 for long
SumDigits(kind, d) ==
  IF kind = "add_int" THEN SubSeq(Digits16(d), 1, 2) ELSE Digits16(d)

\* the sum modulo 2^32 (int) or 2^64 (long) of the new values of the
\* threads in T that are not NULL, as digits
RECURSIVE WrappedSum(_, _)
WrappedSum(kind, T) ==
  IF T = {} THEN SumDigits(kind, Datum(0, 0))
  ELSE LET t == CHOOSE u \in T : TRUE
           rest == WrappedSum(kind, T \ {t})
       IN  IF c_in[t].dclass = DATUM_CLASS__NORMAL
             THEN DigitsAdd(rest, SumDigits(kind, c_in[t].datum), 1, 0)
             ELSE rest

SumKinds == {"add_int", "add_long"}

\* the threads whose atomic add has been executed
CalcAdded == {t \in Threads : c_pc[t] \in {"store", "done"}}

\* C16: the int and long sum accumulators hold the sum of the values added
\* modulo 2^32 and 2^64 (no saturation), in the normal operation (private
\* accumulators, after the exchange of the warp) and in the atomic merge
\* (shared accumulator), and the two operations give the same result on the
\* same accumulator and new value.
C16_IntegerSumWraps ==
  c_kind \in SumKinds =>
    /\ SumDigits(c_kind, c_acc.datum) = WrappedSum(c_kind, CalcAdded)
    /\ \A t \in Threads :
         /\ c_pc[t] = "sync" =>
              SumDigits(c_kind, c_priv[t].datum) = WrappedSum(c_kind, {t})
         /\ c_pc[t] \notin {"start", "sync"} =>
              SumDigits(c_kind, c_priv[t].datum)
                = WrappedSum(c_kind, {t, ShuffleLane(t)})
    /\ \A a \in CalcValues(c_kind), t \in Threads :
         c_in[t].dclass = DATUM_CLASS__NORMAL =>
           LET n == aggcalc_normal(c_kind, Slot(DATUM_CLASS__NORMAL, a), c_in[t])
               m == aggcalc_merge_atomic(c_kind, a, c_in[t].datum)
           IN  /\ AccumView(c_kind, n.datum) = AccumView(c_kind, m)
               /\ SumDigits(c_kind, m)
                    = DigitsAdd(SumDigits(c_kind, a),
                                SumDigits(c_kind, c_in[t].datum), 1, 0)
    /\ CalcAllDone =>
         AccumView(c_kind, c_acc.datum)
           = AccumView(c_kind, CalcRefFold(c_kind, NThreads).datum)

\* LONG_MAX + 0xffffffff, with a carry into the high word, wrapped to a
\* negative value in the shared accumulator and in a private one
C16_Witness ==
  /\ CalcAllDone
  /\ c_kind = "add_long"
  /\ c_in[1] = Slot(DATUM_CLASS__NORMAL, LONG_MAX)
  /\ c_in[2] = Slot(DATUM_CLASS__NORMAL, Datum(0, -1))
  /\ c_in[3].dclass = DATUM_CLASS__NULL
  /\ c_acc.datum = Datum(INT_MIN, -2)
  /\ c_priv[1].datum = Datum(INT_MIN, -2)

(* ---- the reset of the control block before a resume ---- *)

\* the fields gpupreagg_reset_kernel_task does not assign
ResetFrame(kg) ==
  <<kg.num_group_keys, kg.grid_sz, kg.block_sz, kg.suspend_size,
    kg.nitems_real, kg.nitems_filtered, kg.num_groups, kg.extra_usage,
    kg.kparams>>

\* kg is the control block old after the reset with the argument rc
ResetResult(old, rc, kg) ==
  /\ kg.kerror = [errcode |-> 0]
  /\ kg.read_slot_pos = 0
  /\ kg.setup_slot_done = FALSE
  /\ kg.final_buffer_modified = FALSE
  /\ kg.suspend_count = 0
  /\ kg.resume_context = rc
  /\ ResetFrame(kg) = ResetFrame(old)
  /\ DOMAIN kg = DOMAIN old

\* the reset applied to the control block of any state of a launch, with
\* either argument
C17_ResetState ==
  ctl # "none" =>
    \A rc \in BOOLEAN :
      ResetResult(kgpreagg, rc, gpupreagg_reset_kernel_task(kgpreagg, rc))

\* the reset as the caller runs it before the resumed launch: the control
\* block is reset with resume_context true, the saved contexts stay
C17_ResetStep ==
  (ctl = "SUSPENDED" /\ ctl' = "RESUMING") =>
    /\ ResetResult(kgpreagg, TRUE, kgpreagg')
    /\ suspend_ctx' = suspend_ctx

\* C17: gpupreagg_reset_kernel_task clears the error status, sets
\* read_slot_pos to 0, setup_slot_done and final_buffer_modified to false,
\* suspend_count to 0 and resume_context to its argument; suspend_size, the
\* saved suspend contexts, num_group_keys, grid_sz, block_sz and the
\* statistics counters keep their values.
C17_ResetFrameEffect == []C17_ResetState /\ [][C17_ResetStep]_vars

\* a control block reset for a resume: it counted groups and its blocks
\* saved their cursors before, and that is all still there
C17_Witness ==
  /\ ctl = "RESUMING"
  /\ kgpreagg.resume_context
  /\ kgpreagg.suspend_count = 0
  /\ ~kgpreagg.final_buffer_modified
  /\ kgpreagg.num_groups > 0
  /\ kgpreagg.suspend_size > 0
  /\ \E g \in Blocks : suspend_ctx[g] # NoContext

(* ---- the compare-and-swap loops of the floating min and max ---- *)

\* the number a bit pattern of the test values stands for, on a scale that
\* keeps their order: 8 for the largest finite value, 9 for infinity
CasNumber(kind, view) ==
  IF kind \in DoubleKinds
    THEN CASE view = DblOfInt(1)                      ->  1
           [] view = DblOfInt(-3)                     -> -3
           [] view = Datum(DBL_MAX_HI, -1)            ->  8
           [] view = Datum(WithSign(DBL_MAX_HI), -1)  -> -8
           [] view = Datum(DBL_INF_HI, 0)             ->  9
           [] view = Datum(WithSign(DBL_INF_HI), 0)   -> -9
    ELSE CASE view.lo = FltOfInt(1)                   ->  1
           [] view.lo = FltOfInt(-3)                  -> -3
           [] view.lo = FLT_MAX_BITS                  ->  8
           [] view.lo = WithSign(FLT_MAX_BITS)        -> -8
           [] view.lo = FLT_INF_BITS                  ->  9
           [] view.lo = WithSign(FLT_INF_BITS)        -> -9

\* the numbers of the initial value and of the merged new values
CasNumbers(kind, T) ==
  {CasNumber(kind, CasView(kind, aggcalc_init(kind).datum))}
    \cup {CasNumber(kind, CasView(kind, c_in[t].datum)) : t \in T}

CasIsMin(kind) == kind \in {"min_float", "min_double"}

\* n is the least (min kinds) or the greatest (max kinds) of the set S
CasExtreme(kind, n, S) ==
  /\ n \in S
  /\ \A m \in S : IF CasIsMin(kind) THEN n <= m ELSE n >= m

\* the threads whose non-NULL new value is in the accumulator or was found
\* not to improve it: the loop of the call is over
CasPassed == {t \in Threads : c_pc[t] \in {"store", "done"}
                              /\ c_in[t].dclass = DATUM_CLASS__NORMAL}

CasStarted == {t \in Threads : c_pc[t] \in {"cas", "store", "done"}
                               /\ c_in[t].dclass = DATUM_CLASS__NORMAL}

\* C18: whatever the interleaving of concurrent floating min (max) merges
\* on one accumulator, the accumulator is never above (below) a value whose
\* merge has left its loop, it only holds the initial value or a merged
\* value, and when all calls have returned it holds the minimum (maximum)
\* of the initial value and all non-NULL new values.
C18_CasLosesNoValue ==
  c_kind \in CasKinds =>
    LET acc == CasNumber(c_kind, CasView(c_kind, c_acc.datum))
    IN  /\ acc \in CasNumbers(c_kind, CasStarted)
        /\ \A t \in CasPassed :
             LET n == CasNumber(c_kind, CasView(c_kind, c_in[t].datum))
             IN  IF CasIsMin(c_kind) THEN acc <= n ELSE acc >= n
        /\ CalcAllDone =>
             /\ CasExtreme(c_kind, acc, CasNumbers(c_kind, CalcMerged))
             /\ c_acc.dclass = IF CalcMerged = {} THEN DATUM_CLASS__NULL
                                                  ELSE DATUM_CLASS__NORMAL

\* three calls of the double minimum with three different values have
\* returned: the first swapped its value in, the third replaced it by the
\* smallest, the second found the accumulator already below its own
C18_Witness ==
  /\ CalcAllDone
  /\ c_kind = "min_double"
  /\ c_in[1] = Slot(DATUM_CLASS__NORMAL, DblOfInt(1))
  /\ c_in[2] = Slot(DATUM_CLASS__NORMAL, DblOfInt(-3))
  /\ c_in[3] = Slot(DATUM_CLASS__NORMAL, Datum(WithSign(DBL_INF_HI), 0))
  /\ c_acc.datum = Datum(WithSign(DBL_INF_HI), 0)
  /\ c_old[3] = DblOfInt(1)
  /\ c_old[2] = Datum(WithSign(DBL_INF_HI), 0)
  /\ c_old[1] = Datum(DBL_MAX_HI, -1)

(* ---- termination of the compare-and-swap loops ---- *)

\* thread t is in its loop and its swap is going to fail
CasStale(t) ==
  /\ c_pc[t] = "cas"
  /\ CasView(c_kind, c_acc.datum) # c_old[t]

\* a swap can only fail because the swap of another thread put that
\* thread's value into the accumulator since the old value was read
C19_RetryState ==
  c_kind \in CasKinds =>
    \A t \in Threads :
      CasStale(t) =>
        \E u \in CasPassed \ {t} :
          CasView(c_kind, c_in[u].datum) = CasView(c_kind, c_acc.datum)

\* a step of the loop either swaps the new value in and leaves the loop, or
\* finds the accumulator changed, leaves it alone and takes what it holds
\* as the next old value
C19_RetryStep ==
  c_kind \in CasKinds =>
    \A t \in Threads :
      (c_pc[t] = "cas" /\ (c_pc'[t] # "cas" \/ c_old'[t] # c_old[t])) =>
        IF CasStale(t)
          THEN /\ c_acc' = c_acc
               /\ c_old'[t] = CasView(c_kind, c_acc.datum)
               /\ c_old'[t] # c_old[t]
          ELSE /\ c_pc'[t] = "store"
               /\ CasView(c_kind, c_acc'.datum) = CasView(c_kind, c_in[t].datum)

\* C19: with a finite number of concurrent floating min/max merges on one
\* accumulator every call returns: a thread goes round its loop again only
\* after the compare-and-swap of another thread changed the accumulator.
C19_CasLoopsTerminate ==
  /\ []C19_RetryState
  /\ [][C19_RetryStep]_vars
  /\ (c_kind \in CasKinds) ~> CalcAllDone

\* two threads are in their loops with the old value they read at the
\* start, a third has swapped its value in since: both swaps will fail
C19_Witness ==
  /\ c_kind \in CasKinds
  /\ \E t, u \in Threads :
       /\ t # u
       /\ CasStale(t) /\ CasStale(u)
       /\ c_old[t] = CasView(c_kind, aggcalc_init(c_kind).datum)
       /\ c_old[u] = c_old[t]

(* ---- the lock word of the global hash table ---- *)

\* a launch of the group-by reduction, with or without a faulting row
Hashing == ctl # "none" /\ kgpreagg.num_group_keys > 0

\* blocks that hold the shared lock, and blocks that hold the exclusive lock
SharedHolders == {g \in Blocks : l_pc[g] = "probe"}
ExclusiveHolders == {g \in Blocks : l_pc[g] \in {"link", "init"}}

\* the lock word counts its holders: bit 0 for the exclusive holder, 2 for
\* every shared holder; an exclusive holder is alone
C20_LockState ==
  Hashing =>
    /\ f_hash.lock = 2 * Cardinality(SharedHolders)
                       + (IF ExclusiveHolders # {} THEN 1 ELSE 0)
    /\ Cardinality(ExclusiveHolders) <= 1
    /\ ExclusiveHolders # {} => SharedHolders = {}

\* what is done under which lock: the table is probed and rows are combined
\* while no block holds the exclusive lock, by a block that holds the shared
\* lock or takes and releases it within the step; the exclusive lock is
\* taken when the lock word is 0 and released by the step that links the
\* new item and initialises its row (or finds the key linked meanwhile)
C20_LockStep ==
  (Hashing /\ ctl' = ctl) =>
    /\ ((\E i \in 1..Len(kds_final) :
           i <= Len(kds_final') /\ kds_final'[i] # kds_final[i])
        \/ folded' # folded) =>
         /\ f_hash.lock % 2 = 0
         /\ Len(kds_final') = Len(kds_final)
         /\ f_hash'.mem = f_hash.mem
         /\ \E g \in Blocks \ ExclusiveHolders :
              l_pc[g] \in {"probe", "retry", "row", "suspend"}
              /\ (l_pc'[g] # l_pc[g] \/ l_cur'[g] # l_cur[g]
                  \/ l_end'[g] # l_end[g])
    /\ f_hash'.mem # f_hash.mem =>
         /\ f_hash.lock = 1
         /\ f_hash'.lock = 1
         /\ \E g \in ExclusiveHolders : Stepped(g, "link")
    /\ Len(kds_final') # Len(kds_final) =>
         /\ f_hash.lock = 1
         /\ f_hash'.lock = 0
         /\ \E g \in ExclusiveHolders :
              /\ Stepped(g, "init")
              /\ kds_final' = Append(kds_final,
                                     AccRow(RowAt(l_cur[g]).key,
                                            gpupreagg_init_slot, {}))
    /\ \A g \in Blocks :
         /\ Stepped(g, "probe") =>
              f_hash.lock >= 2 /\ f_hash.lock % 2 = 0
              /\ f_hash'.lock = f_hash.lock - 2
         /\ Stepped(g, "retry") => f_hash.lock % 2 = 0
         /\ Stepped(g, "insert") =>
              f_hash.lock = 0 /\ f_hash'.lock = 1 /\ l_pc'[g] = "link"
         /\ Stepped(g, "link") =>
              /\ f_hash.lock = 1
              /\ \/ f_hash'.lock = 0 /\ l_pc'[g] = "row"
                 \/ f_hash'.lock = 1 /\ l_pc'[g] = "init"
         /\ Stepped(g, "init") =>
              f_hash.lock = 1 /\ f_hash'.lock = 0 /\ l_pc'[g] = "row"
         /\ (l_pc[g] # "probe" /\ l_pc'[g] = "probe") =>
              f_hash.lock % 2 = 0 /\ f_hash'.lock = f_hash.lock + 2
    /\ f_hash'.lock # f_hash.lock =>
         \E g \in Blocks :
           Stepped(g, "probe") \/ Stepped(g, "insert") \/ Stepped(g, "link")
           \/ Stepped(g, "init") \/ l_pc'[g] = "probe"

Initialising == {g \in Blocks : l_pc[g] = "init"}

\* the row a linked item points to before it is initialised can be seen by
\* nobody: the block that linked it holds the exclusive lock and no block
\* is probing; every row of the final buffer carries a group key and the
\* aggregates of exactly the rows combined into it
C21_InitState ==
  Hashing =>
    /\ Initialising # {} =>
         /\ f_hash.lock = 1
         /\ Cardinality(Initialising) = 1
         /\ \A h \in Blocks : l_pc[h] # "probe"
    /\ f_junk # "none" => Initialising # {}
    /\ Initialising = {} =>
         \A key \in GroupKeys :
           LET idx == GlobalFind(f_hash, kds_final, key)
           IN  idx # UINT_MAX =>
                 idx < Len(kds_final) /\ kds_final[idx + 1].key = key
    /\ \A i \in 1..Len(kds_final) :
         /\ kds_final[i].key \in GroupKeys
         /\ IF kds_final[i].src = {}
              THEN kds_final[i].acc = gpupreagg_init_slot
              ELSE MatchesRef(kds_final[i].acc, kds_final[i].src)

\* a contribution is combined only into a row that was created and
\* initialised by an earlier step, while no row is being initialised, and
\* it is in that row afterwards; the initialisation writes the key and the
\* initial accumulators to a new row and touches no other row
C21_InitStep ==
  (Hashing /\ ctl' = ctl) =>
    /\ Len(kds_final') >= Len(kds_final)
    /\ \A i \in 1..Len(kds_final) :
         /\ kds_final'[i].key = kds_final[i].key
         /\ kds_final[i].src \subseteq kds_final'[i].src
         /\ kds_final'[i] # kds_final[i] =>
              /\ Initialising = {}
              /\ kds_final'[i].src # kds_final[i].src
              /\ MatchesRef(kds_final'[i].acc, kds_final'[i].src)
    /\ \A off \in RowOffsets :
         folded'[off] # folded[off] =>
           /\ Initialising = {}
           /\ \E i \in 1..Len(kds_final) :
                off \in kds_final'[i].src \ kds_final[i].src
    /\ \A g \in Blocks :
         Stepped(g, "init") =>
           /\ kds_final' = Append(kds_final,
                                  AccRow(RowAt(l_cur[g]).key,
                                         gpupreagg_init_slot, {}))
           /\ GlobalFind(f_hash', kds_final', RowAt(l_cur[g]).key)
                = Len(kds_final)
           /\ folded' = folded
    /\ Len(kds_final') # Len(kds_final) => \E g \in Blocks : Stepped(g, "init")

\* C21: no block combines a contribution into a row of the final buffer
\* before the row's group key and accumulators are initialised: the row is
\* visible to probing blocks only after its initialisation, and no
\* contribution is overwritten by a later initialisation.
C21_InitBeforeVisible == []C21_InitState /\ [][C21_InitStep]_vars

\* a block has linked the item of a new row whose memory happens to hold
\* the very key another block is about to probe for, and has not
\* initialised the row yet
C21_Witness ==
  /\ Hashing
  /\ \E g, h \in Blocks :
       /\ l_pc[g] = "init"
       /\ f_junk = RowAt(l_cur[g]).key
       /\ l_pc[h] = "row" /\ l_cur[h] < ChunkLimit(h)
       /\ RowAt(l_cur[h]).errcode = 0
       /\ RowAt(l_cur[h]).key = f_junk
       /\ f_junk \notin LocalKeys(h)

(* ---------------------------------------------------------------------- *)
(* C22: the chains of the hash tables                                       *)
(* ---------------------------------------------------------------------- *)

\* the items met from cur along the next words (nexts[i + 1] is the next
\* word of item i); a walk that leaves the items or does not end within fuel
\* steps is marked by a UINT_MAX entry
RECURSIVE ChainWalk(_, _, _)
ChainWalk(nexts, cur, fuel) ==
  IF cur = UINT_MAX THEN <<>>
  ELSE IF fuel = 0 \/ cur \notin 0..(Len(nexts) - 1) THEN <<UINT_MAX>>
  ELSE <<cur>> \o ChainWalk(nexts, nexts[cur + 1], fuel - 1)

ChainItems(nexts, cur) ==
  LET walk == ChainWalk(nexts, cur, Len(nexts))
  IN  {walk[n] : n \in DOMAIN walk}

\* hash items of the global table linked so far: one per created row, and
\* the one whose row is being initialised
LinkedCount(final, pc) ==
  Len(final) + Cardinality({g \in DOMAIN pc : pc[g] = "init"})

GlobalNexts(fh, n) == [i \in 1..n |-> ReadItem(fh, i - 1).next]
GlobalHeads(fh) == [b \in 0..(fh.nslots - 1) |-> WordAt(fh, SlotOffset(b))]
LocalNexts(tab) == [i \in 1..tab.nitems |-> tab.l_hitems[i].next]

\* every chain ends at UINT_MAX, and every item is in the chain of exactly
\* one bucket: that of its hash value (hashes[i + 1] is the hash of item i)
ChainsOk(heads, nexts, hashes, nslots) ==
  /\ \A b \in DOMAIN heads : UINT_MAX \notin ChainItems(nexts, heads[b])
  /\ \A i \in 0..(Len(nexts) - 1) :
       /\ Cardinality({b \in DOMAIN heads : i \in ChainItems(nexts, heads[b])}) = 1
       /\ i \in ChainItems(nexts, heads[hashes[i + 1] % nslots])
       /\ LET walk == ChainWalk(nexts, heads[hashes[i + 1] % nslots], Len(nexts))
          IN  Cardinality({n \in DOMAIN walk : walk[n] = i}) = 1

\* item n was linked at the head of bucket b: the items linked before keep
\* their next words, the other buckets their heads, and a walk from the old
\* head of b, or from any item, meets the items it met before
HeadInsert(heads, nexts, heads2, nexts2, b, n) ==
  /\ Len(nexts2) = n + 1
  /\ Len(nexts) = n
  /\ \A i \in 1..n : nexts2[i] = nexts[i]
  /\ \A c \in DOMAIN heads : c # b => heads2[c] = heads[c]
  /\ heads2[b] = n
  /\ nexts2[n + 1] = heads[b]
  /\ ChainWalk(nexts2, heads2[b], n + 1)
       = <<n>> \o ChainWalk(nexts, heads[b], n)
  /\ \A cur \in (0..(n - 1)) \cup {heads[b]} :
       ChainWalk(nexts2, cur, n + 1) = ChainWalk(nexts, cur, n)

C22_ChainState ==
  Hashing =>
    /\ LET n == LinkedCount(kds_final, l_pc)
       IN  /\ ChainsOk(GlobalHeads(f_hash), GlobalNexts(f_hash, n),
                       [i \in 1..n |-> ReadItem(f_hash, i - 1).hash],
                       f_hash.nslots)
           /\ \A i \in 0..(n - 1) : ReadItem(f_hash, i).index = i
    /\ \A g \in Blocks :
         /\ Len(l_tab[g].l_hitems) = l_tab[g].nitems
         /\ ChainsOk(l_tab[g].l_hslots, LocalNexts(l_tab[g]),
                     [i \in 1..l_tab[g].nitems |-> l_tab[g].l_hitems[i].hash],
                     GPUPREAGG_LOCAL_HASH_NSLOTS)
         /\ \A i \in 1..l_tab[g].nitems : l_tab[g].l_hitems[i].index = i - 1

C22_ChainStep ==
  (Hashing /\ ctl' = ctl) =>
    /\ LET n  == LinkedCount(kds_final, l_pc)
           n2 == LinkedCount(kds_final', l_pc')
       IN  IF f_hash'.mem # f_hash.mem
           THEN \E g \in Blocks :
                  /\ Stepped(g, "link")
                  /\ HeadInsert(GlobalHeads(f_hash), GlobalNexts(f_hash, n),
                                GlobalHeads(f_hash'), GlobalNexts(f_hash', n2),
                                gpupreagg_hashvalue(RowAt(l_cur[g]).key)
                                  % f_hash.nslots,
                                n)
           ELSE n2 = n
    /\ \A g \in Blocks :
         l_tab'[g] # l_tab[g] =>
           \/ l_tab'[g] = LocalEmpty
           \/ /\ l_tab'[g].l_hslots = l_tab[g].l_hslots
              /\ l_tab'[g].l_hitems = l_tab[g].l_hitems
           \/ \E b \in LocalBuckets :
                HeadInsert(l_tab[g].l_hslots, LocalNexts(l_tab[g]),
                           l_tab'[g].l_hslots, LocalNexts(l_tab'[g]),
                           b, l_tab[g].nitems)

ItemBytes(fh, index) ==
  LET o == GLOBAL_HASHSLOT_GETITEM(fh, index)
  IN  o..(o + SIZEOF_HASH_ITEM - 1)

BucketBytes(fh) == OFFSETOF_SLOTS..(OFFSETOF_SLOTS + SIZEOF_UINT * fh.nslots - 1)

\* the 32-bit word of the arena at a byte offset counted back from the tail
TailWord(fh, back) ==
  fh.mem[((fh.length - back - OFFSETOF_SLOTS) \div SIZEOF_UINT) + 1]

C23_ArenaState ==
  Hashing =>
    /\ Len(f_hash.mem) * SIZEOF_UINT = f_hash.length - OFFSETOF_SLOTS
    /\ \A i, j \in 0..(HashSlotRooms(f_hash) - 1) :
         i # j => ItemBytes(f_hash, i) \cap ItemBytes(f_hash, j) = {}
    /\ \A i \in 0..(HashSlotRooms(f_hash) + 1) :
         HashItemFits(f_hash, i) <=>
           /\ ItemBytes(f_hash, i) \subseteq OFFSETOF_SLOTS..(f_hash.length - 1)
           /\ ItemBytes(f_hash, i) \cap BucketBytes(f_hash) = {}
    /\ \A i \in 0..(LinkedCount(kds_final, l_pc) - 1) :
         /\ HashItemFits(f_hash, i)
         /\ TailWord(f_hash, SIZEOF_HASH_ITEM * (i + 1)) = i
         /\ i < Len(kds_final) =>
              TailWord(f_hash, SIZEOF_HASH_ITEM * (i + 1) - SIZEOF_UINT)
                = gpupreagg_hashvalue(kds_final[i + 1].key)
    /\ \A b \in 0..(f_hash.nslots - 1) :
         f_hash.mem[b + 1] \in {UINT_MAX} \cup 0..(LinkedCount(kds_final, l_pc) - 1)

\* bytes of the arena whose word differs between two contents
ChangedBytes(mem, mem2) ==
  UNION {(OFFSETOF_SLOTS + SIZEOF_UINT * (w - 1))
           ..(OFFSETOF_SLOTS + SIZEOF_UINT * w - 1) :
         w \in {v \in DOMAIN mem : mem2[v] # mem[v]}}

C23_ArenaStep ==
  (Hashing /\ ctl' = ctl) =>
    /\ f_hash'.length = f_hash.length /\ f_hash'.nslots = f_hash.nslots
    /\ \A g \in Blocks :
         Stepped(g, "reserve") =>
           (l_pc'[g] = "insert" <=>
              f_hash.length - SIZEOF_HASH_ITEM * (f_hash.usage + 1)
                >= OFFSETOF_SLOTS + SIZEOF_UINT * f_hash.nslots)
    /\ ChangedBytes(f_hash.mem, f_hash'.mem)
         \subseteq ItemBytes(f_hash, LinkedCount(kds_final, l_pc))
                     \cup BucketBytes(f_hash)

KeysKept(rows, rows2, n) ==
  /\ Len(rows2) >= n
  /\ \A i \in 1..n : rows2[i].key = rows[i].key

\* the key of every row is that of each input row combined into it
KeysOfSources(rows) ==
  \A i \in DOMAIN rows :
    /\ rows[i].key \in GroupKeys
    /\ \A off \in rows[i].src : RowAt(off).key = rows[i].key

C24_KeyState ==
  Hashing =>
    /\ KeysOfSources(kds_final)
    /\ KeysOfSources(persisted)
    /\ \A g \in Blocks : KeysOfSources(l_tab[g].rooms)

C24_KeyStep ==
  Hashing =>
    /\ IF ctl = "SUSPENDED" /\ ctl' = "RESUMING"
       THEN /\ kds_final' = <<>>
            /\ persisted' = persisted \o kds_final
       ELSE /\ persisted' = persisted
            /\ KeysKept(kds_final, kds_final', Len(kds_final))
            /\ Len(kds_final') <= Len(kds_final) + 1
            /\ Len(kds_final') = Len(kds_final) + 1 =>
                 \E g \in Blocks :
                   /\ Stepped(g, "init")
                   /\ kds_final'[Len(kds_final')].key = RowAt(l_cur[g]).key
                   /\ kds_final'[Len(kds_final')].src = {}
    /\ \A g \in Blocks :
         \/ l_tab'[g].rooms = <<>>
         \/ /\ KeysKept(l_tab[g].rooms, l_tab'[g].rooms, Len(l_tab[g].rooms))
            /\ Len(l_tab'[g].rooms) <= Len(l_tab[g].rooms) + 1
            /\ Len(l_tab'[g].rooms) = Len(l_tab[g].rooms) + 1 =>
                 l_tab'[g].rooms[Len(l_tab'[g].rooms)].key = RowAt(l_cur[g]).key

\* C24: the key of a row of the final buffer, and of a room of a local
\* table, is written by the step that creates the row, as the key of the
\* input row that missed, and no later step changes it: combines, merges
\* and inserts of other rows leave it as it is, a drained row keeps it, and
\* in every state it is the key of every input row combined into the row
C24_GroupKeyWrittenOnce == []C24_KeyState /\ [][C24_KeyStep]_vars

\* after a resume: a drained row, a row of the final buffer and a room of a
\* local table each hold at least two input rows
C24_Witness ==
  /\ Hashing
  /\ \E i \in DOMAIN persisted : Cardinality(persisted[i].src) >= 2
  /\ \E i \in DOMAIN kds_final : Cardinality(kds_final[i].src) >= 1
  /\ \E g \in Blocks : \E r \in DOMAIN l_tab[g].rooms :
       Cardinality(l_tab[g].rooms[r].src) >= 1

(* ---------------------------------------------------------------------- *)
(* C25: a block that meets a full final buffer                              *)
(* ---------------------------------------------------------------------- *)

SuspendedBlocks == {g \in Blocks : l_pc[g] = "stopped"}

C25_SuspendState ==
  ctl # "none" =>
    /\ kgpreagg.suspend_count = Cardinality(SuspendedBlocks)
    /\ \A g \in SuspendedBlocks :
         /\ suspend_ctx[g] = <<l_cur[g]>>
         /\ l_cur[g] < NRows
         /\ folded[l_cur[g]] = 0
         /\ l_tab[g] = LocalEmpty
    /\ ctl = "SUSPENDED" => SuspendedBlocks # {}
    /\ ctl = "DONE" => SuspendedBlocks = {}

C25_SuspendStep ==
  (ctl # "none" /\ ctl' = ctl) =>
    \A g \in Blocks :
      /\ l_pc[g] = "suspend" =>
           /\ l_pc'[g] \in {"suspend", "stopped"}
           /\ l_cur'[g] = l_cur[g]
           /\ Stepped(g, "suspend") =>
                /\ suspend_ctx' = [suspend_ctx EXCEPT ![g] = <<l_cur[g]>>]
                /\ kgpreagg'.suspend_count = kgpreagg.suspend_count + 1
                /\ f_hash' = f_hash
                /\ l_tab'[g] = LocalEmpty
           /\ ~Stepped(g, "suspend") => l_tab'[g] = l_tab[g]
      /\ l_pc[g] = "stopped" =>
           /\ l_pc'[g] = "stopped"
           /\ l_cur'[g] = l_cur[g]
           /\ l_end'[g] = l_end[g]
           /\ l_tab'[g] = l_tab[g]
           /\ suspend_ctx'[g] = suspend_ctx[g]
      /\ (\A h \in Blocks : ~Stepped(h, "suspend")) =>
           /\ kgpreagg'.suspend_count = kgpreagg.suspend_count
           /\ \/ suspend_ctx'[g] = suspend_ctx[g]
              \/ Stepped(g, "entry") /\ suspend_ctx'[g] = NoContext
      /\ (l_pc[g] # "suspend" /\ l_pc'[g] = "suspend") =>
           /\ l_pc[g] = "retry"
           /\ f_hash.usage = HashSlotRooms(f_hash)
           /\ Len(kds_final) = HashSlotRooms(f_hash)
           /\ f_hash' = f_hash

ContextBytes(ptr) == ptr[1]..(ptr[1] + SIZEOF_SUSPEND_CONTEXT - 1)

C26_ContextState ==
  ctl # "none" =>
    /\ \A g \in Blocks :
         LET ptr == KERN_GPUPREAGG_SUSPEND_CONTEXT(kgpreagg, g)
         IN  IF kgpreagg.suspend_size = 0
             THEN /\ ptr = <<>>
                  /\ suspend_ctx[g] = NoContext
                  /\ l_pc[g] \notin {"suspend", "stopped"}
             ELSE /\ ptr # <<>>
                  /\ ptr[1] = kgpreagg.kparams.length + SIZEOF_SUSPEND_CONTEXT * g
                  /\ ContextBytes(ptr) \subseteq
                       kgpreagg.kparams.length
                         ..(kgpreagg.kparams.length + kgpreagg.suspend_size - 1)
                  /\ SuspendEntry(kgpreagg, ptr) = g
                  /\ \A h \in Blocks \ {g} :
                       ContextBytes(ptr) \cap
                         ContextBytes(KERN_GPUPREAGG_SUSPEND_CONTEXT(kgpreagg, h))
                           = {}
    /\ \A g \in Blocks :
         suspend_ctx[g] # NoContext =>
           \/ l_pc[g] = "stopped" /\ kgpreagg.suspend_count > 0
           \/ l_pc[g] = "entry" /\ ctl = "RESUMING" /\ kgpreagg.resume_context

C26_ContextStep ==
  ctl # "none" =>
    \A g \in Blocks :
      /\ (suspend_ctx[g] = NoContext /\ suspend_ctx'[g] # NoContext) =>
           /\ Stepped(g, "suspend")
           /\ \A h \in Blocks \ {g} : suspend_ctx'[h] = suspend_ctx[h]
      /\ (suspend_ctx[g] # NoContext /\ suspend_ctx'[g] # suspend_ctx[g]) =>
           /\ Stepped(g, "entry")
           /\ kgpreagg.resume_context
           /\ suspend_ctx'[g] = NoContext
           /\ l_cur'[g] = suspend_ctx[g][1]
           /\ \A h \in Blocks \ {g} : suspend_ctx'[h] = suspend_ctx[h]
      /\ (Stepped(g, "entry") /\ kgpreagg.resume_context
            /\ suspend_ctx[g] = NoContext) =>
           l_pc'[g] = "exit"

\* C26: KERN_GPUPREAGG_SUSPEND_CONTEXT is NULL when suspend_size is 0, and
\* else points group_id entries behind the end of the parameter buffer;
\* the entries of distinct blocks share no byte and lie inside the suspend
\* array.  A context holds a cursor only from the step that suspends its
\* block until the entry of that block into the resumed launch, which
\* takes the cursor and empties the context (a launch that failed is not
\* resumed, and its contexts are not taken); a block of a resumed launch
\* whose context is empty does nothing
C26_ContextOnlyWhileSuspended == []C26_ContextState /\ [][C26_ContextStep]_vars

\* a resumed launch of two blocks that both suspended: one has taken its
\* cursor and runs, the context of the other still waits for its block
C26_Witness ==
  /\ ctl = "RESUMING"
  /\ kgpreagg.resume_context
  /\ \E g, h \in Blocks :
       /\ l_pc[g] = "row" /\ suspend_ctx[g] = NoContext
       /\ l_pc[h] = "entry" /\ suspend_ctx[h] # NoContext
       /\ KERN_GPUPREAGG_SUSPEND_CONTEXT(kgpreagg, h)
            = <<kgpreagg.kparams.length + SIZEOF_SUSPEND_CONTEXT * h>>
       /\ h > 0

(* ---------------------------------------------------------------------- *)
(* C27: the read cursor and the chunks of the blocks                        *)
(* ---------------------------------------------------------------------- *)

\* the chunks of the batch are dealt round: the chunk that ends at end
\* belongs to the round's place ChunkSlot
ChunkSlot(kg, end) == ((end \div kg.block_sz) - 1) % kg.grid_sz

\* the input rows of the chunks of a place
SlotRows(kg, slot) ==
  {off \in RowOffsets : (off \div kg.block_sz) % kg.grid_sz = slot}

\* blocks that have claimed a chunk
Owning == {g \in Blocks : l_end[g] > 0}

\* input rows held in the local table or the private accumulators of g
HeldRows(g) == RoomsSrc(l_tab[g].rooms) \cup l_priv[g].src

C27_CursorState ==
  ctl # "none" =>
    /\ kgpreagg.read_slot_pos =
         IF kgpreagg.resume_context THEN 0
         ELSE Cardinality(Owning) * kgpreagg.block_sz
    /\ ~kgpreagg.resume_context =>
         /\ {ChunkSlot(kgpreagg, l_end[g]) : g \in Owning}
              = 0..(Cardinality(Owning) - 1)
         /\ Owning = {g \in Blocks : l_pc[g] # "entry"}
    /\ \A g, h \in Owning :
         g # h => ChunkSlot(kgpreagg, l_end[g]) # ChunkSlot(kgpreagg, l_end[h])
    /\ \A g \in Owning :
         /\ l_end[g] % kgpreagg.block_sz = 0
         /\ l_end[g] - kgpreagg.block_sz <= l_cur[g]
         /\ l_cur[g] <= l_end[g]
         /\ HeldRows(g) \subseteq SlotRows(kgpreagg, ChunkSlot(kgpreagg, l_end[g]))
         /\ HeldRows(g) \subseteq 0..(l_cur[g] - 1)
    /\ Owning = Blocks =>
         \A off \in RowOffsets :
           Cardinality({g \in Blocks :
                          off \in SlotRows(kgpreagg,
                                           ChunkSlot(kgpreagg, l_end[g]))}) = 1

C27_CursorStep ==
  (ctl # "none" /\ ~(ctl = "SUSPENDED" /\ ctl' = "RESUMING")) =>
    /\ kgpreagg'.read_slot_pos >= kgpreagg.read_slot_pos
    /\ kgpreagg'.read_slot_pos # kgpreagg.read_slot_pos =>
         \E g \in Blocks :
           /\ Stepped(g, "entry")
           /\ kgpreagg'.read_slot_pos
                = kgpreagg.read_slot_pos + kgpreagg.block_sz
           /\ l_cur'[g] = kgpreagg.read_slot_pos
           /\ l_end'[g] = kgpreagg.read_slot_pos + kgpreagg.block_sz
           /\ \A h \in Blocks \ {g} : l_cur'[h] = l_cur[h] /\ l_end'[h] = l_end[h]
    /\ \A g \in Owning :
         /\ ChunkSlot(kgpreagg', l_end'[g]) = ChunkSlot(kgpreagg, l_end[g])
         /\ l_end'[g] >= l_end[g]
         /\ l_cur'[g] >= l_cur[g]
         /\ l_cur'[g] # l_cur[g] =>
              \/ l_cur'[g] = l_cur[g] + 1 /\ l_end'[g] = l_end[g]
              \/ /\ l_cur[g] >= ChunkLimit(g)
                 /\ l_cur'[g] = l_end'[g] - kgpreagg.block_sz
                 /\ l_end'[g] = l_end[g] + kgpreagg.grid_sz * kgpreagg.block_sz

Qnil == -1                  \* the Ruby nil, as a datum
SHRT_MAX == 32767           \* NUM2SHORT raises RangeError beyond it
SIZEOF_INT16 == 2           \* sizeof(int16_t)

\* data a caller passes for a column: nil, two numbers, and a number that
\* is out of the range of int16_t
ArrowData == {Qnil, 5, 6, 40000}

ArrowFields == 1..2         \* the columns of the table (table->nfields)

\* NUM2SHORT(datum): <<value>>, or <<>> when it raises
NUM2SHORT(datum) ==
  IF datum >= -SHRT_MAX - 1 /\ datum <= SHRT_MAX THEN <<datum>> ELSE <<>>

\* SQLbuffer: data as a sequence of items, usage in items
sql_buffer_append(buf, item) == Append(buf, item)
sql_buffer_append_zero(buf) == Append(buf, 0)

\* the bit at index (from 0) is written, the buffer grows to hold it
SqlBufferPutBit(buf, index, bit) ==
  [i \in 1..(IF Len(buf) > index + 1 THEN Len(buf) ELSE index + 1) |->
     IF i = index + 1 THEN bit ELSE IF i <= Len(buf) THEN buf[i] ELSE 0]

sql_buffer_setbit(buf, index) == SqlBufferPutBit(buf, index, 1)
sql_buffer_clrbit(buf, index) == SqlBufferPutBit(buf, index, 0)

\* an empty column
SQLfield == [nitems |-> 0, nullcount |-> 0, nullmap |-> <<>>, values |-> <<>>]

\* (a slip: nullcount is not counted)
put_inline_null_value_nocount(column, row_index) ==
  [column EXCEPT !.nullmap = sql_buffer_clrbit(@, row_index),
                 !.values = sql_buffer_append_zero(@)]

\* __put_inline_null_value
put_inline_null_value(column, row_index) ==
  [column EXCEPT !.nullcount = @ + 1,
                 !.nullmap = sql_buffer_clrbit(@, row_index),
                 !.values = sql_buffer_append_zero(@)]

\* put_ruby_int16_value: the column afterwards, and whether NUM2SHORT
\* raised; nitems is counted before the datum is converted
put_ruby_int16_value(column, datum) ==
  LET row_index == column.nitems
      counted   == [column EXCEPT !.nitems = @ + 1]
  IN  IF datum = Qnil
      THEN [column |-> put_inline_null_value(counted, row_index),
            raised |-> FALSE]
      ELSE IF NUM2SHORT(datum) = <<>>
      THEN [column |-> counted, raised |-> TRUE]
      ELSE [column |-> [counted EXCEPT
                          !.nullmap = sql_buffer_setbit(@, row_index),
                          !.values = sql_buffer_append(@, NUM2SHORT(datum)[1])],
            raised |-> FALSE]

\* bytes of a bitmap of n bits
BitmapBytes(n) == (n + 7) \div 8

\* __buffer_usage_inline_type: the bytes the column takes in a record batch
buffer_usage_inline_type(column) ==
  SIZEOF_INT16 * Len(column.values)
    + (IF column.nullcount > 0 THEN BitmapBytes(Len(column.nullmap)) ELSE 0)

\* the loop of __arrowFile__writeRow over the columns from j on: the
\* columns afterwards, the sum of the usages, and whether a put_value raised
RECURSIVE PutRow(_, _, _, _)
PutRow(columns, row, j, len) ==
  IF j > Len(columns) THEN [columns |-> columns, len |-> len, raised |-> FALSE]
  ELSE LET put == put_ruby_int16_value(columns[j], row[j])
       IN  IF put.raised
           THEN [columns |-> [columns EXCEPT ![j] = put.column],
                 len |-> len, raised |-> TRUE]
           ELSE PutRow([columns EXCEPT ![j] = put.column], row, j + 1,
                       len + buffer_usage_inline_type(put.column))

\* (a slip: the columns are left as the failed call left them)
RevertColumns_none(columns, nitems_saved) == columns

\* the revert of rb_ArrowFile__writeRow: nitems of every column is set back
RevertColumns(columns, nitems_saved) ==
  [j \in DOMAIN columns |-> [columns[j] EXCEPT !.nitems = nitems_saved]]

\* sql_table_clear: the table is empty again
sql_table_clear(table) ==
  [table EXCEPT !.nitems = 0,
                !.columns = [j \in DOMAIN table.columns |-> SQLfield]]

(* ---------------------------------------------------------------------- *)
(* The ArrowFile writer of fluentd: the methods of an ArrowFile object      *)
(* ---------------------------------------------------------------------- *)

ArrowMaxCalls == 3          \* calls of writeRow of one process

RecordBatchThreshold == 8   \* record_batch_threshold, in bytes
FileSizeThreshold == 4      \* filesize_threshold, in blocks of the file

ArrowProcs == DOMAIN a_pc

\* the table of a new ArrowFile object: no file is open (fdesc 0)
SQLtable ==
  [nitems |-> 0, fdesc |-> 0, columns |-> [j \in ArrowFields |-> SQLfield],
   f_pos |-> 0, recordBatches |-> <<>>]

\* the locals of a call: nitems_saved and mcxt_saved of
\* rb_ArrowFile__writeRow, mcxt_saved of arrowFileWriteRecordBatch
ArrowLocals(nitems_saved, mcxt_row, mcxt_batch) ==
  [nitems |-> nitems_saved, mcxt_row |-> mcxt_row, mcxt_batch |-> mcxt_batch]

\* the blocks of an Arrow file
ArrowHead == [kind |-> "head", id |-> <<>>, batches |-> <<>>]
ArrowBatch(id) == [kind |-> "batch", id |-> id, batches |-> <<>>]
ArrowFooter(batches) == [kind |-> "footer", id |-> <<>>, batches |-> batches]
ArrowHole == [kind |-> "hole", id |-> <<>>, batches |-> <<>>]

\* block written at offset pos of a file
arrowFileWrite(file, pos, block) ==
  [i \in 1..(IF Len(file) > pos + 1 THEN Len(file) ELSE pos + 1) |->
     IF i = pos + 1 THEN block
     ELSE IF i <= Len(file) THEN file[i] ELSE ArrowHole]

\* fdesc of arrowFileOpen, and of __arrowFileSwitchNext whether the
\* pathname still names that file and the suffix found unused
SwitchLocals(fdesc, same, suffix) ==
  [fdesc |-> fdesc, same |-> same, suffix |-> suffix]

\* open(buf, O_RDWR | O_CREAT): the file the pathname names, a new empty
\* file when it names none
OpenCreate ==
  IF a_path = 0
  THEN /\ a_files' = Append(a_files, <<>>)
       /\ a_flock' = Append(a_flock, {})
       /\ a_path' = Len(a_files) + 1
  ELSE UNCHANGED <<a_files, a_flock, a_path>>

\* a file of an earlier run that was renamed to a suffix
ArrowOldFile == <<ArrowHead, ArrowFooter(<<>>)>>

\* the objects of procs are new, the pathname names an empty file, and
\* olds files of earlier runs have the suffixes 1..olds
ArrowInitOver(procs, inputs, olds) ==
  /\ a_table = [p \in procs |-> SQLtable]
  /\ a_mcxt = [p \in procs |-> "default"]
  /\ a_pc = [p \in procs |-> "idle"]
  /\ a_via = [p \in procs |-> "none"]
  /\ a_saved = [p \in procs |-> ArrowLocals(0, "default", "default")]
  /\ a_files = [f \in 1..(1 + olds) |-> IF f = 1 THEN <<>> ELSE ArrowOldFile]
  /\ a_path = 1
  /\ a_flock = [f \in 1..(1 + olds) |-> {}]
  /\ a_inputs = inputs
  /\ a_calls = [p \in procs |-> 0]
  /\ a_rows = [p \in procs |-> <<>>]
  /\ a_last = [p \in procs |-> "none"]
  /\ a_done = {}
  /\ a_dir = [k \in 1..olds |-> k + 1]
  /\ a_dlock = {}
  /\ a_sw = [p \in procs |-> SwitchLocals(0, FALSE, 0)]

\* one process that writes rows of any data, or two processes that write
\* to the same pathname
ArrowInit ==
  /\ CalcIdle
  /\ PipeIdle
  /\ UnitIdle
  /\ \/ ArrowInitOver(1..1, [ArrowFields -> ArrowData], 0)
     \/ \E olds \in 0..1 : ArrowInitOver(1..2, {<<5, 6>>, <<5, 40000>>}, olds)

\* ArrowFile::writeRow: rb_ArrowFile__writeRow around __arrowFile__writeRow,
\* up to the return, the revert after an exception of a put_value, or the
\* call of arrowFileWriteRecordBatch
ArrowWriteRow(p, row) ==
  /\ a_pc[p] = "idle"
  /\ a_calls[p] < ArrowMaxCalls
  /\ row \in a_inputs
  /\ IF a_table[p].fdesc = 0
     THEN OpenCreate
     ELSE UNCHANGED <<a_files, a_flock, a_path>>
  /\ LET table        == a_table[p]
         nitems_saved == table.nitems
         mcxt_saved   == a_mcxt[p]
         opened       == IF table.fdesc = 0
                         THEN [table EXCEPT !.fdesc = a_path'] ELSE table
         put          == PutRow(opened.columns, row, 1, 0)
     IN  /\ a_saved' = [a_saved EXCEPT
                          ![p] = ArrowLocals(nitems_saved, mcxt_saved, "table")]
         /\ IF put.raised
            THEN /\ a_table' = [a_table EXCEPT ![p] =
                      [opened EXCEPT
                         !.columns = RevertColumns(put.columns, nitems_saved),
                         !.nitems = nitems_saved]]
                 /\ a_last' = [a_last EXCEPT ![p] = "raised"]
                 /\ UNCHANGED <<a_mcxt, a_pc, a_rows>>
            ELSE /\ a_table' = [a_table EXCEPT ![p] =
                      [opened EXCEPT !.columns = put.columns,
                                     !.nitems = @ + 1]]
                 /\ IF put.len >= RecordBatchThreshold
                    THEN /\ a_pc' = [a_pc EXCEPT ![p] = "flock"]
                         /\ a_mcxt' = [a_mcxt EXCEPT ![p] = "table"]
                         /\ UNCHANGED <<a_rows, a_last>>
                    ELSE /\ a_rows' = [a_rows EXCEPT ![p] = Append(@, row)]
                         /\ a_last' = [a_last EXCEPT ![p] = "ok"]
                         /\ UNCHANGED <<a_mcxt, a_pc>>
  /\ a_via' = [a_via EXCEPT ![p] = "writeRow"]
  /\ a_calls' = [a_calls EXCEPT ![p] = @ + 1]
  /\ UNCHANGED <<a_inputs, a_done>>
  /\ UNCHANGED <<calcVars, pipeVars, unitVars, switchVars>>

\* ArrowFile::cleanup: the rows left are written, the file is closed
ArrowCleanup(p) ==
  /\ a_pc[p] = "idle"
  /\ a_calls[p] <= ArrowMaxCalls
  /\ IF a_table[p].nitems > 0
     THEN /\ a_pc' = [a_pc EXCEPT ![p] = "flock"]
          /\ UNCHANGED a_table
     ELSE /\ a_pc' = [a_pc EXCEPT ![p] = "closed"]
          /\ a_table' = [a_table EXCEPT ![p].fdesc = 0]
  /\ a_via' = [a_via EXCEPT ![p] = "cleanup"]
  /\ a_saved' = [a_saved EXCEPT
                   ![p] = ArrowLocals(a_table[p].nitems, a_mcxt[p], a_mcxt[p])]
  /\ a_calls' = [a_calls EXCEPT ![p] = @ + 1]
  /\ UNCHANGED <<a_mcxt, a_files, a_path, a_flock, a_inputs, a_rows, a_last,
                 a_done>>
  /\ UNCHANGED <<calcVars, pipeVars, unitVars, switchVars>>

\* the exclusive lock of a file is free
FlockFree_always(fdesc) == TRUE

FlockFree(fdesc) == a_flock[fdesc] = {}

\* flock(fdesc, LOCK_UN) of process p
FlockUnlock(p, fdesc) == [a_flock EXCEPT ![fdesc] = @ \ {p}]

\* the batch a call of process p writes
ArrowBatchId(p) == <<p, a_calls[p]>>

\* the last block of a file is a footer
ArrowFooterLast(file) == Len(file) > 0 /\ file[Len(file)].kind = "footer"

\* arrowFileWriteRecordBatch, top of the loop: flock(LOCK_EX) is granted,
\* the context of the batch is switched to
ArrowFlock(p) ==
  /\ a_pc[p] = "flock"
  /\ FlockFree(a_table[p].fdesc)
  /\ a_flock' = [a_flock EXCEPT ![a_table[p].fdesc] = @ \cup {p}]
  /\ a_saved' = [a_saved EXCEPT ![p].mcxt_batch = a_mcxt[p]]
  /\ a_mcxt' = [a_mcxt EXCEPT ![p] = "batch"]
  /\ a_pc' = [a_pc EXCEPT ![p] = "head"]
  /\ UNCHANGED <<a_table, a_via, a_files, a_path, a_inputs, a_calls, a_rows,
                 a_last, a_done>>
  /\ UNCHANGED <<calcVars, pipeVars, unitVars, switchVars>>

\* flock(LOCK_EX) fails: Elog raises before the context is switched
ArrowFlockFail(p) ==
  /\ a_pc[p] = "flock"
  /\ a_pc' = [a_pc EXCEPT ![p] = "raised"]
  /\ UNCHANGED <<a_table, a_mcxt, a_via, a_saved, a_files, a_path, a_flock,
                 a_inputs, a_calls, a_rows, a_last, a_done>>
  /\ UNCHANGED <<calcVars, pipeVars, unitVars, switchVars>>

\* the exception path of arrowFileWriteRecordBatch (status != 0): unlock,
\* switch back, rb_jump_tag
ArrowBatchRaise(p) ==
  /\ a_pc[p] \in {"head", "batch", "footer"}
  /\ a_flock' = FlockUnlock(p, a_table[p].fdesc)
  /\ a_mcxt' = [a_mcxt EXCEPT ![p] = a_saved[p].mcxt_batch]
  /\ a_pc' = [a_pc EXCEPT ![p] = "raised"]
  /\ UNCHANGED <<a_table, a_via, a_saved, a_files, a_path, a_inputs, a_calls,
                 a_rows, a_last, a_done>>
  /\ UNCHANGED <<calcVars, pipeVars, unitVars, switchVars>>

\* the exception reaches the caller: rb_ArrowFile__writeRow reverts nitems
\* and switches back to its saved context, then raises on; cleanup has no
\* handler
ArrowCallerUnwind(p) ==
  /\ a_pc[p] = "raised"
  /\ IF a_via[p] = "writeRow"
     THEN /\ a_table' = [a_table EXCEPT
               ![p].columns = RevertColumns(@, a_saved[p].nitems),
               ![p].nitems = a_saved[p].nitems]
          /\ a_mcxt' = [a_mcxt EXCEPT ![p] = a_saved[p].mcxt_row]
     ELSE UNCHANGED <<a_table, a_mcxt>>
  /\ a_pc' = [a_pc EXCEPT ![p] = "idle"]
  /\ a_last' = [a_last EXCEPT ![p] = "raised"]
  /\ UNCHANGED <<a_via, a_saved, a_files, a_path, a_flock, a_inputs, a_calls,
                 a_rows, a_done>>
  /\ UNCHANGED <<calcVars, pipeVars, unitVars, switchVars>>

\* (a slip: no file counts as full)
FileFull_never(file) == FALSE

\* stat_buf.st_size >= threshold
FileFull(file) == Len(file) >= FileSizeThreshold

\* __arrowFileWriteRecordBatch up to writeArrowRecordBatch: a file at the
\* threshold is left (Qfalse: unlock, switch back, reopen); an empty file
\* gets its head; of any other file the footer is read and the position
\* moved in front of it (readArrowFileDesc raises when there is none)
ArrowBatchHead(p) ==
  /\ a_pc[p] = "head"
  /\ LET fdesc == a_table[p].fdesc
         file  == a_files[fdesc]
     IN  IF FileFull(file)
         THEN /\ a_flock' = FlockUnlock(p, fdesc)
              /\ a_mcxt' = [a_mcxt EXCEPT ![p] = a_saved[p].mcxt_batch]
              /\ a_pc' = [a_pc EXCEPT ![p] = "reopen"]
              /\ UNCHANGED <<a_table, a_files>>
         ELSE /\ Len(file) = 0 \/ ArrowFooterLast(file)
              /\ IF Len(file) = 0
                 THEN /\ a_files' = [a_files EXCEPT ![fdesc] =
                                       arrowFileWrite(file, 0, ArrowHead)]
                      /\ a_table' = [a_table EXCEPT
                                       ![p].recordBatches = <<>>,
                                       ![p].f_pos = 1]
                 ELSE /\ a_table' = [a_table EXCEPT
                                       ![p].recordBatches =
                                          file[Len(file)].batches,
                                       ![p].f_pos = Len(file) - 1]
                      /\ UNCHANGED a_files
              /\ a_pc' = [a_pc EXCEPT ![p] = "batch"]
              /\ UNCHANGED <<a_flock, a_mcxt>>
  /\ UNCHANGED <<a_via, a_saved, a_path, a_inputs, a_calls, a_rows, a_last,
                 a_done>>
  /\ UNCHANGED <<calcVars, pipeVars, unitVars, switchVars>>

\* the directory lock is free
DirFree_always == TRUE

DirFree == a_dlock = {}

\* the loop of __arrowFileSwitchNext over the suffixes: the first name
\* that faccessat does not find
RECURSIVE FirstUnused(_, _)
FirstUnused(dir, suffix) ==
  IF suffix \in DOMAIN dir THEN FirstUnused(dir, suffix + 1) ELSE suffix

\* renameat(d_desc, b_name, d_desc, n_name): the name of the suffix names
\* the file, whatever it named before
RenameTo(dir, suffix, file) ==
  IF suffix \in DOMAIN dir THEN [dir EXCEPT ![suffix] = file]
  ELSE Append(dir, file)

\* (a slip: the file just opened is taken, whatever the table had open)
ArrowFileOpenNext_same(p) ==
  /\ a_pc[p] = "reopen"
  /\ OpenCreate
  /\ a_table' = [a_table EXCEPT ![p].fdesc = a_path']
  /\ a_pc' = [a_pc EXCEPT ![p] = "flock"]
  /\ UNCHANGED <<a_mcxt, a_via, a_saved, a_inputs, a_calls, a_rows, a_last,
                 a_done>>
  /\ UNCHANGED <<calcVars, pipeVars, unitVars, switchVars>>

\* arrowFileOpen(self, true), from retry_again: the file at the pathname
\* is opened; when it is the file the table already has open,
\* __arrowFileSwitchNext is called; otherwise the previous file is closed
\* and the new one becomes the table's
ArrowFileOpenNext(p) ==
  /\ a_pc[p] = "reopen"
  /\ OpenCreate
  /\ IF a_path' = a_table[p].fdesc
     THEN /\ a_sw' = [a_sw EXCEPT ![p] = SwitchLocals(a_path', FALSE, 0)]
          /\ a_pc' = [a_pc EXCEPT ![p] = "dirlock"]
          /\ UNCHANGED a_table
     ELSE /\ a_table' = [a_table EXCEPT ![p].fdesc = a_path']
          /\ a_pc' = [a_pc EXCEPT ![p] = "flock"]
          /\ UNCHANGED a_sw
  /\ UNCHANGED <<a_mcxt, a_via, a_saved, a_inputs, a_calls, a_rows, a_last,
                 a_done, a_dir, a_dlock>>
  /\ UNCHANGED <<calcVars, pipeVars, unitVars>>

\* __arrowFileSwitchNext: flock(d_desc, LOCK_EX) is granted
ArrowSwitchLock(p) ==
  /\ a_pc[p] = "dirlock"
  /\ DirFree
  /\ a_dlock' = a_dlock \cup {p}
  /\ a_pc' = [a_pc EXCEPT ![p] = "dirstat"]
  /\ UNCHANGED <<a_table, a_mcxt, a_via, a_saved, a_files, a_path, a_flock,
                 a_inputs, a_calls, a_rows, a_last, a_done, a_dir, a_sw>>
  /\ UNCHANGED <<calcVars, pipeVars, unitVars>>

\* __arrowFileSwitchNext: stat(filename), "pathname is not renamed yet?",
\* and the search of the first unused suffix; when the pathname names
\* another file by now the directory is closed and arrowFileOpen tries again
ArrowSwitchStat(p) ==
  /\ a_pc[p] = "dirstat"
  /\ a_path # 0
  /\ IF a_path = a_sw[p].fdesc
     THEN /\ a_sw' = [a_sw EXCEPT ![p] =
                        SwitchLocals(@.fdesc, TRUE, FirstUnused(a_dir, 1))]
          /\ a_pc' = [a_pc EXCEPT ![p] = "rename"]
          /\ UNCHANGED a_dlock
     ELSE /\ a_dlock' = a_dlock \ {p}
          /\ a_pc' = [a_pc EXCEPT ![p] = "reopen"]
          /\ UNCHANGED a_sw
  /\ UNCHANGED <<a_table, a_mcxt, a_via, a_saved, a_files, a_path, a_flock,
                 a_inputs, a_calls, a_rows, a_last, a_done, a_dir>>
  /\ UNCHANGED <<calcVars, pipeVars, unitVars>>

\* __arrowFileSwitchNext: renameat to the suffix found, close(d_desc),
\* return true; arrowFileOpen closes its descriptor and tries again
ArrowSwitchRename(p) ==
  /\ a_pc[p] = "rename"
  /\ a_path # 0
  /\ a_dir' = RenameTo(a_dir, a_sw[p].suffix, a_path)
  /\ a_path' = 0
  /\ a_dlock' = a_dlock \ {p}
  /\ a_pc' = [a_pc EXCEPT ![p] = "reopen"]
  /\ UNCHANGED <<a_table, a_mcxt, a_via, a_saved, a_files, a_flock, a_inputs,
                 a_calls, a_rows, a_last, a_done, a_sw>>
  /\ UNCHANGED <<calcVars, pipeVars, unitVars>>

\* __arrowFileSwitchNext returns false (open or flock of the directory,
\* stat of a pathname that names no file, faccessat or renameat failed):
\* the directory is closed and arrowFileOpen raises
ArrowSwitchFail(p) ==
  /\ a_pc[p] \in {"dirlock", "dirstat", "rename"}
  /\ a_dlock' = a_dlock \ {p}
  /\ a_pc' = [a_pc EXCEPT ![p] = "raised"]
  /\ UNCHANGED <<a_table, a_mcxt, a_via, a_saved, a_files, a_path, a_flock,
                 a_inputs, a_calls, a_rows, a_last, a_done, a_dir, a_sw>>
  /\ UNCHANGED <<calcVars, pipeVars, unitVars>>

\* writeArrowRecordBatch: the batch goes to the file position
ArrowBatchBody(p) ==
  /\ a_pc[p] = "batch"
  /\ LET table == a_table[p]
     IN  /\ a_files' = [a_files EXCEPT ![table.fdesc] =
                          arrowFileWrite(@, table.f_pos,
                                         ArrowBatch(ArrowBatchId(p)))]
         /\ a_table' = [a_table EXCEPT
                          ![p].recordBatches = Append(@, ArrowBatchId(p)),
                          ![p].f_pos = @ + 1]
  /\ a_pc' = [a_pc EXCEPT ![p] = "footer"]
  /\ UNCHANGED <<a_mcxt, a_via, a_saved, a_path, a_flock, a_inputs, a_calls,
                 a_rows, a_last, a_done>>
  /\ UNCHANGED <<calcVars, pipeVars, unitVars, switchVars>>

\* writeArrowFooter and the normal return (Qtrue): unlock, switch back
ArrowBatchFooter(p) ==
  /\ a_pc[p] = "footer"
  /\ LET table == a_table[p]
     IN  /\ a_files' = [a_files EXCEPT ![table.fdesc] =
                          arrowFileWrite(@, table.f_pos,
                                         ArrowFooter(table.recordBatches))]
         /\ a_flock' = FlockUnlock(p, table.fdesc)
  /\ a_mcxt' = [a_mcxt EXCEPT ![p] = a_saved[p].mcxt_batch]
  /\ a_pc' = [a_pc EXCEPT ![p] = "written"]
  /\ a_done' = a_done \cup {ArrowBatchId(p)}
  /\ UNCHANGED <<a_table, a_via, a_saved, a_path, a_inputs, a_calls, a_rows,
                 a_last>>
  /\ UNCHANGED <<calcVars, pipeVars, unitVars, switchVars>>

\* back in the caller: __arrowFile__writeRow clears the table and
\* rb_ArrowFile__writeRow switches back and returns; cleanup closes the file
ArrowCallerReturn(p) ==
  /\ a_pc[p] = "written"
  /\ IF a_via[p] = "writeRow"
     THEN /\ a_table' = [a_table EXCEPT ![p] = sql_table_clear(@)]
          /\ a_mcxt' = [a_mcxt EXCEPT ![p] = a_saved[p].mcxt_row]
          /\ a_pc' = [a_pc EXCEPT ![p] = "idle"]
     ELSE /\ a_table' = [a_table EXCEPT ![p].fdesc = 0]
          /\ a_pc' = [a_pc EXCEPT ![p] = "closed"]
          /\ UNCHANGED a_mcxt
  /\ a_rows' = [a_rows EXCEPT ![p] = <<>>]
  /\ a_last' = [a_last EXCEPT ![p] = "ok"]
  /\ UNCHANGED <<a_via, a_saved, a_files, a_path, a_flock, a_inputs, a_calls,
                 a_done>>
  /\ UNCHANGED <<calcVars, pipeVars, unitVars, switchVars>>

ArrowNext ==
  \/ \E p \in ArrowProcs : \E row \in a_inputs : ArrowWriteRow(p, row)
  \/ \E p \in ArrowProcs : ArrowCleanup(p)
  \/ \E p \in ArrowProcs : ArrowFlock(p)
  \/ \E p \in ArrowProcs : ArrowFlockFail(p)
  \/ \E p \in ArrowProcs : ArrowBatchRaise(p)
  \/ \E p \in ArrowProcs : ArrowBatchHead(p)
  \/ \E p \in ArrowProcs : ArrowFileOpenNext(p)
  \/ \E p \in ArrowProcs : ArrowSwitchLock(p)
  \/ \E p \in ArrowProcs : ArrowSwitchStat(p)
  \/ \E p \in ArrowProcs : ArrowSwitchRename(p)
  \/ \E p \in ArrowProcs : ArrowSwitchFail(p)
  \/ \E p \in ArrowProcs : ArrowBatchBody(p)
  \/ \E p \in ArrowProcs : ArrowBatchFooter(p)
  \/ \E p \in ArrowProcs : ArrowCallerReturn(p)
  \/ \E p \in ArrowProcs : ArrowCallerUnwind(p)

SpecArrow == ArrowInit /\ [][ArrowNext]_vars

(* ---------------------------------------------------------------------- *)
(* Claims about the ArrowFile writer                                        *)
(* ---------------------------------------------------------------------- *)

\* the rows a process has written with success into its table since the
\* last record batch are a_rows; a_last is how its last call ended

\* what a column stores for a datum: its value, and its bit of the nullmap
StoredValue(datum) == IF datum = Qnil THEN 0 ELSE datum
StoredBit(datum) == IF datum = Qnil THEN 0 ELSE 1

\* column j of a table holds row (from 1) at its row index
RowStoredAt(column, j, index, row) ==
  /\ Len(column.values) >= index
  /\ column.values[index] = StoredValue(row[j])
  /\ Len(column.nullmap) >= index
  /\ column.nullmap[index] = StoredBit(row[j])

\* C28: after a call of writeRow that failed part-way through a row the
\* buffers of the table are as before the call: between calls the table and
\* every column report the number of the rows written with success, and
\* every such row, also one written after a failed call, is stored at its
\* row index in every column.
C28_RevertedOnFailure ==
  \A p \in ArrowProcs :
    a_pc[p] = "idle" =>
      /\ a_table[p].nitems = Len(a_rows[p])
      /\ \A j \in ArrowFields :
           /\ a_table[p].columns[j].nitems = Len(a_rows[p])
           /\ \A i \in 1..Len(a_rows[p]) :
                RowStoredAt(a_table[p].columns[j], j, i, a_rows[p][i])

\* the NULL values of column j among rows
NullsAmong(rows, j) == Cardinality({i \in 1..Len(rows) : rows[i][j] = Qnil})

\* C29: after any sequence of calls of writeRow, some of them failed, every
\* column's nitems is the table's nitems, and every column's nullcount is
\* the number of NULL values among those rows.
C29_CountsAgree ==
  \A p \in ArrowProcs :
    a_pc[p] = "idle" =>
      \A j \in ArrowFields :
        /\ a_table[p].columns[j].nitems = a_table[p].nitems
        /\ a_table[p].nitems = Len(a_rows[p])
        /\ a_table[p].columns[j].nullcount = NullsAmong(a_rows[p], j)

\* a process is inside __arrowFileWriteRecordBatch
ArrowWriting(p) == a_pc[p] \in {"head", "batch", "footer"}

\* the allocation context in which arrowFileWriteRecordBatch was called:
\* writeRow calls it in the context of the table, cleanup in its own
ContextAtCall(p) == IF a_via[p] = "writeRow" THEN "table" ELSE "default"

\* the files whose content a step changes
FilesWritten ==
  {f \in DOMAIN a_files : a_files'[f] # a_files[f]}

C30_LockState ==
  /\ \A f \in DOMAIN a_flock : Cardinality(a_flock[f]) <= 1
  /\ \A p \in ArrowProcs :
       /\ ArrowWriting(p) =>
            /\ a_flock[a_table[p].fdesc] = {p}
            /\ a_mcxt[p] = "batch"
       /\ ~ArrowWriting(p) => \A f \in DOMAIN a_flock : p \notin a_flock[f]
       /\ a_pc[p] \in {"reopen", "written", "raised"} =>
            a_mcxt[p] = ContextAtCall(p)
  /\ \A p, q \in ArrowProcs :
       ArrowWriting(p) /\ ArrowWriting(q) /\ p # q =>
         a_table[p].fdesc # a_table[q].fdesc

C30_LockStep ==
  /\ \A f \in FilesWritten :
       \E p \in ArrowProcs :
         /\ ArrowWriting(p)
         /\ a_table[p].fdesc = f
         /\ a_flock[f] = {p}
  /\ \A p \in ArrowProcs :
       ArrowWriting(p) /\ ~ArrowWriting(p)' =>
         /\ a_pc'[p] \in {"reopen", "written", "raised"}
         /\ p \notin a_flock'[a_table[p].fdesc]
         /\ a_mcxt'[p] = ContextAtCall(p)

\* C30: arrowFileWriteRecordBatch writes to the file only while it holds
\* the exclusive lock of that file; on every way out (the batch written,
\* the file left for the next one, an exception) the lock is released and
\* the allocation context is the one of the call again; two processes
\* that append to the same file are never both between the head and the
\* footer of their batch.
C30_WriteUnderLock == []C30_LockState /\ [][C30_LockStep]_vars

\* two processes have the same file open, one writes its batch under the
\* lock while the other waits for it, after an exception has left a call
\* and a batch has been written
C30_Witness ==
  \E p, q \in ArrowProcs :
    /\ p # q
    /\ a_pc[p] = "footer"
    /\ a_pc[q] = "flock"
    /\ a_table[p].fdesc = a_table[q].fdesc
    /\ a_flock[a_table[p].fdesc] = {p}
    /\ a_last[q] = "raised"
    /\ a_done # {}

(* ---------------------------------------------------------------------- *)
(* The retry loop of arrowFileWriteRecordBatch                              *)
(* ---------------------------------------------------------------------- *)

ArrowLiveProcs == 1..2

\* two processes that write rows of numbers to the same pathname
ArrowLiveInit ==
  /\ CalcIdle
  /\ PipeIdle
  /\ UnitIdle
  /\ \E olds \in 0..1 : ArrowInitOver(ArrowLiveProcs, {<<5, 6>>}, olds)

\* the steps of one process
ArrowProcStep(p) ==
  \/ \E row \in a_inputs : ArrowWriteRow(p, row)
  \/ ArrowCleanup(p)
  \/ ArrowFlock(p)
  \/ ArrowFlockFail(p)
  \/ ArrowBatchRaise(p)
  \/ ArrowBatchHead(p)
  \/ ArrowFileOpenNext(p)
  \/ ArrowSwitchLock(p)
  \/ ArrowSwitchStat(p)
  \/ ArrowSwitchRename(p)
  \/ ArrowSwitchFail(p)
  \/ ArrowBatchBody(p)
  \/ ArrowBatchFooter(p)
  \/ ArrowCallerReturn(p)
  \/ ArrowCallerUnwind(p)

\* a process that can take a step takes one: a call goes on until it
\* returns or raises, and flock(LOCK_EX) is granted once the file is
\* unlocked for good
SpecArrowLive ==
  /\ ArrowLiveInit
  /\ [][ArrowNext]_vars
  /\ \A p \in ArrowLiveProcs : WF_vars(ArrowProcStep(p))

\* the places of the files at which the batch id stands
BatchPlaces(id) ==
  {fi \in UNION {{<<f, i>> : i \in 1..Len(a_files[f])} : f \in DOMAIN a_files} :
     a_files[fi[1]][fi[2]] = ArrowBatch(id)}

\* a process is in arrowFileOpen(self, true)
ArrowReopening(p) == a_pc[p] \in {"reopen", "dirlock", "dirstat", "rename"}

C31_RetryState ==
  \A p \in ArrowProcs :
    /\ a_pc[p] \in {"batch", "footer"} =>
         Len(a_files[a_table[p].fdesc]) < FileSizeThreshold
    /\ Cardinality(BatchPlaces(ArrowBatchId(p))) <= 1
    /\ a_pc[p] \in {"flock", "head", "batch"} \/ ArrowReopening(p) =>
         BatchPlaces(ArrowBatchId(p)) = {}
    /\ a_pc[p] = "written" =>
         \E i \in 1..Len(a_files[a_table[p].fdesc]) :
           BatchPlaces(ArrowBatchId(p)) = {<<a_table[p].fdesc, i>>}

C31_RetryStep ==
  \A p \in ArrowProcs :
    LET file == a_files[a_table[p].fdesc]
    IN  /\ a_pc[p] = "head" /\ a_pc'[p] = "reopen" =>
             /\ Len(file) >= FileSizeThreshold
             /\ a_files' = a_files
        /\ a_pc[p] = "head" /\ Len(file) < FileSizeThreshold =>
             a_pc'[p] # "reopen"
        /\ ArrowReopening(p) =>
             /\ a_table'[p].nitems = a_table[p].nitems
             /\ a_table'[p].columns = a_table[p].columns
        /\ ArrowReopening(p) /\ ~ArrowReopening(p)' =>
             \/ a_pc'[p] = "raised"
             \/ /\ a_pc'[p] = "flock"
                /\ a_table'[p].fdesc # a_table[p].fdesc

C31_RetrySafe == []C31_RetryState /\ [][C31_RetryStep]_vars

\* C31: a record batch is never appended to a file that has reached
\* filesize_threshold: the writer leaves such a file unchanged, switches to
\* the next file with its rows still buffered and tries again; the batch
\* stands in no file before it is written and exactly once, in the file
\* the writer has open, when the call returns; a file below the threshold
\* ends the loop, and every retry ends with the batch written or with an
\* exception.
C31_NoAppendWhenFull ==
  /\ C31_RetrySafe
  /\ \A p \in ArrowLiveProcs :
       ArrowReopening(p) ~> (a_pc[p] \in {"written", "raised"})

\* a process found its file full, switched to the next file and has
\* written its batch there
C31_Witness ==
  \E p \in ArrowProcs :
    /\ a_pc[p] = "written"
    /\ a_table[p].fdesc > 1
    /\ BatchPlaces(ArrowBatchId(p)) # {}
    /\ Len(a_files[1]) >= FileSizeThreshold

(* ---------------------------------------------------------------------- *)
(* Switching to the next output file                                        *)
(* ---------------------------------------------------------------------- *)

\* the files that have a name with a suffix
SuffixedFiles == {a_dir[k] : k \in DOMAIN a_dir}

C32_OpenState ==
  /\ a_path \notin SuffixedFiles
  /\ \A p \in ArrowProcs :
       a_pc[p] \in {"dirlock", "dirstat", "rename"} =>
         a_sw[p].fdesc = a_table[p].fdesc

C32_OpenStep ==
  \A p \in ArrowProcs :
    /\ ArrowReopening(p) /\ a_pc'[p] = "flock" =>
         /\ a_table'[p].fdesc # a_table[p].fdesc
         /\ a_table'[p].fdesc = a_path'
         /\ a_table[p].fdesc \in SuffixedFiles'
    /\ a_pc[p] = "rename" /\ a_pc'[p] = "reopen" =>
         /\ \A k \in 1..(a_sw[p].suffix - 1) : k \in DOMAIN a_dir
         /\ a_sw[p].suffix \notin DOMAIN a_dir
         /\ a_dir'[a_sw[p].suffix] = a_table[p].fdesc
         /\ a_path' = 0

\* C32: arrowFileOpen with force_next_file, called with a file open,
\* returns with another file open than before, the one the pathname names
\* then, although the pathname is the same; the previous file has a name
\* with a numeric suffix by then, and the process that renames it gives it
\* the first suffix that is not in use.
C32_NextFileDiffers == []C32_OpenState /\ [][C32_OpenStep]_vars

\* a process found the pathname still naming its full file, renamed it to
\* suffix 2 because suffix 1 was in use, and has the new file open
C32_Witness ==
  \E p \in ArrowProcs :
    /\ a_pc[p] = "flock"
    /\ a_sw[p] = SwitchLocals(1, TRUE, 2)
    /\ a_dir = <<2, 1>>
    /\ a_table[p].fdesc = 3
    /\ a_path = 3

C33_SwitchState ==
  /\ Cardinality(a_dlock) <= 1
  /\ \A j, k \in DOMAIN a_dir : a_dir[j] = a_dir[k] => j = k
  /\ a_path \notin SuffixedFiles
  /\ \A p \in ArrowProcs :
       /\ p \in a_dlock <=> a_pc[p] \in {"dirstat", "rename"}
       /\ a_pc[p] = "rename" =>
            /\ a_path = a_sw[p].fdesc
            /\ a_sw[p].suffix \notin DOMAIN a_dir

C33_SwitchStep ==
  /\ a_dir' # a_dir =>
       \E p \in ArrowProcs :
         /\ a_pc[p] = "rename"
         /\ a_dlock = {p}
         /\ a_dir' = Append(a_dir, a_table[p].fdesc)
         /\ FileFull(a_files[a_table[p].fdesc])
  /\ \A p \in ArrowProcs :
       a_pc[p] = "dirstat" /\ a_pc'[p] # "dirstat"
         /\ a_path # a_sw[p].fdesc =>
           /\ a_pc'[p] \in {"reopen", "raised"}
           /\ a_dir' = a_dir
           /\ a_path' = a_path

\* C33: when several writers find the same file full and switch at the
\* same time, the file is renamed once: a name changes only in the step of
\* a process that alone holds the exclusive lock of the directory and whose
\* full file the pathname still names; a process that finds the pathname
\* naming another file, or none, renames nothing; a file never has two
\* names, and the name of no suffixed file is given to another file.
C33_RenamedOnce == []C33_SwitchState /\ [][C33_SwitchStep]_vars

\* two processes have found the same file full: one holds the lock of the
\* directory and is about to rename, the other waits for the lock
C33_Witness ==
  \E p, q \in ArrowProcs :
    /\ p # q
    /\ a_pc[p] = "rename"
    /\ a_pc[q] = "dirlock"
    /\ a_sw[p].fdesc = a_sw[q].fdesc
    /\ a_table[q].fdesc = a_table[p].fdesc

\* the second writer found the pathname naming the new file of the first
\* and went on without a rename
C33_WitnessSeen ==
  \E p, q \in ArrowProcs :
    /\ p # q
    /\ a_sw[p].same
    /\ a_sw[q].fdesc = a_sw[p].fdesc
    /\ ~a_sw[q].same
    /\ a_pc[q] = "flock"
    /\ a_table[q].fdesc = a_path
    /\ a_sw[q].fdesc \in SuffixedFiles

(* ---------------------------------------------------------------------- *)
(* The pathname of an ArrowFile: validator and expansion                    *)
(* ---------------------------------------------------------------------- *)

MaxPathLen == 3             \* characters of a pathname

\* the characters of a pathname: the slash, a letter, the percent sign, the
\* format characters of the validator, and one that is none
FormatChars == {"Y", "y", "m", "d", "H", "M", "S", "p", "q"}
PathChars == {"/", "a", "%", "x"} \cup FormatChars

PathInputs == UNION {[1..n -> PathChars] : n \in 0..MaxPathLen}

\* the time and the process of the call of arrowFileOpen
PathTime ==
  [tm_year |-> 126, tm_mon |-> 10, tm_mday |-> 3, tm_hour |-> 9,
   tm_min |-> 5, tm_sec |-> 0, pid |-> 4711]

DigitChars == <<"0", "1", "2", "3", "4", "5", "6", "7", "8", "9">>

\* snprintf "%u", and "%02u" / "%04u" with a width
RECURSIVE FormatUnsigned(_, _)
FormatUnsigned(n, width) ==
  IF n < 10 /\ width <= 1 THEN <<DigitChars[n + 1]>>
  ELSE Append(FormatUnsigned(n \div 10, width - 1), DigitChars[(n % 10) + 1])

\* __arrowFilePathnameValidator from character i (from 1) on: whether the
\* pathname is accepted
RECURSIVE PathnameValidFrom(_, _)
PathnameValidFrom(str, i) ==
  IF i > Len(str) THEN TRUE
  ELSE IF str[i] # "%" THEN PathnameValidFrom(str, i + 1)
  ELSE IF i + 1 > Len(str) THEN FALSE
  ELSE IF str[i + 1] \in {"Y", "y", "m", "d", "H", "M", "S", "p", "q"}
       THEN PathnameValidFrom(str, i + 2)
       ELSE FALSE

\* __arrowFilePathnameValidator
arrowFilePathnameValidator(str) ==
  /\ Len(str) # 0
  /\ str[1] = "/"
  /\ PathnameValidFrom(str, 1)

\* the switch of arrowFileOpen over a format character: what snprintf
\* appends, or <<"?">> at the default label
ExpandFormat(c, tm) ==
  CASE c = "Y" -> FormatUnsigned(tm.tm_year + 1900, 4)
    [] c = "y" -> FormatUnsigned(tm.tm_year % 100, 2)
    [] c = "m" -> FormatUnsigned(tm.tm_mon + 1, 2)
    [] c = "d" -> FormatUnsigned(tm.tm_mday, 2)
    [] c = "H" -> FormatUnsigned(tm.tm_hour, 2)
    [] c = "M" -> FormatUnsigned(tm.tm_min, 2)
    [] c = "S" -> FormatUnsigned(tm.tm_sec, 2)
    [] c = "p" -> FormatUnsigned(tm.pid, 1)
    [] OTHER -> <<"?">>

\* the loop of arrowFileOpen over the pathname from character i on: buf,
\* and whether Elog raised (unknown format character, unclosed format)
RECURSIVE ExpandPathname(_, _, _, _)
ExpandPathname(str, i, buf, tm) ==
  IF i > Len(str) THEN [buf |-> buf, raised |-> FALSE]
  ELSE IF str[i] # "%"
       THEN ExpandPathname(str, i + 1, Append(buf, str[i]), tm)
  ELSE IF i + 1 > Len(str) THEN [buf |-> buf, raised |-> TRUE]
  ELSE IF ExpandFormat(str[i + 1], tm) = <<"?">>
       THEN [buf |-> buf, raised |-> TRUE]
       ELSE ExpandPathname(str, i + 2, buf \o ExpandFormat(str[i + 1], tm), tm)

PathInit ==
  /\ CalcIdle
  /\ PipeIdle
  /\ ArrowIdle
  /\ ColumnIdle
  /\ StatIdle
  /\ MemIdle
  /\ pn_str \in PathInputs
  /\ pn_pc = "new"
  /\ pn_out = <<>>

\* ArrowFile.new: the validator accepts the pathname or raises
PathValidate ==
  /\ pn_pc = "new"
  /\ pn_pc' = IF arrowFilePathnameValidator(pn_str) THEN "accepted"
              ELSE "rejected"
  /\ UNCHANGED <<pn_str, pn_out>>
  /\ UNCHANGED <<calcVars, pipeVars, arrowVars, colVars, statVars, memVars>>

\* arrowFileOpen: the pathname of the object is expanded
PathOpen ==
  /\ pn_pc = "accepted"
  /\ LET made == ExpandPathname(pn_str, 1, <<>>, PathTime)
     IN  /\ pn_pc' = IF made.raised THEN "raised" ELSE "opened"
         /\ pn_out' = made.buf
  /\ UNCHANGED pn_str
  /\ UNCHANGED <<calcVars, pipeVars, arrowVars, colVars, statVars, memVars>>

PathNext == PathValidate \/ PathOpen

SpecPath == PathInit /\ [][PathNext]_vars

\* C34: a pathname that the validator of the constructor accepted (an
\* absolute path in which every '%' is followed by one of Y y m d H M S p
\* q) is expanded by arrowFileOpen without an error about its format.
C34_AcceptedExpands == pn_pc # "raised"

(* ---------------------------------------------------------------------- *)
(* The put_value handlers of arrow_ruby.c on one column, with the buffers   *)
(* of the column held as bytes.  A datum is DatumNil or a record with the   *)
(* value the handler fetches from the Ruby object.  The values are small,   *)
(* so that no product leaves the range of uint64_t.                         *)
(* ---------------------------------------------------------------------- *)

MaxColumnPuts == 3          \* put_value calls on the column under test

SIZEOF_INT32 == 4           \* sizeof(int32_t)
SIZEOF_UINT32 == 4          \* sizeof(uint32_t)
SIZEOF_INT64 == 8           \* sizeof(int64_t), sizeof(uint64_t)
SIZEOF_DOUBLE == 8          \* sizeof(double)
SIZEOF_INT128 == 16         \* sizeof(int128_t)

DatumNil == [nil |-> TRUE]

\* Integer data
IntData == {[nil |-> FALSE, num |-> n] : n \in {0, 5, -1, 70000}}

\* Decimal data: Integers whose product with 10 ** 8 is a small number
DecimalData == {[nil |-> FALSE, num |-> n] : n \in {0, 5, -1, 12}}

\* Time data: seconds since the epoch and nanoseconds
TimeData ==
  {[nil |-> FALSE, sec |-> s, nsec |-> ns] :
     s \in {0, 1, 2000}, ns \in {0, 999999, 1000000, 999999999}}

\* String data, as the bytes of the UTF-8 string
StringData == {[nil |-> FALSE, str |-> b] : b \in {<<>>, <<97>>, <<98, 99>>}}

ColumnKinds == {"Int32", "Decimal", "DateMs", "TimestampMs", "Utf8"}

FixedKinds == ColumnKinds \ {"Utf8"}

\* the data a caller passes for a column of the kind
ColumnData(kind) ==
  {DatumNil} \cup (IF kind = "Int32" THEN IntData
                   ELSE IF kind = "Decimal" THEN DecimalData
                   ELSE IF kind = "Utf8" THEN StringData ELSE TimeData)

\* the scales of the Decimal columns: Decimal(30,0) and the default
DecimalScales == {0, 8}

\* the first sz bytes of the little-endian two's complement of value
RECURSIVE LEBytes(_, _)
LEBytes(value, sz) ==
  IF sz = 0 THEN <<>> ELSE <<value % 256>> \o LEBytes(value \div 256, sz - 1)

\* sql_buffer_append(buf, &value, sz): sz bytes of the object are appended
SqlBufferAppendBytes(buf, value, sz) == buf \o LEBytes(value, sz)

\* sql_buffer_append_zero(buf, sz)
SqlBufferAppendZero(buf, sz) == buf \o [i \in 1..sz |-> 0]

\* an empty column of a kind; scale is arrow_type.Decimal.scale
ByteField(scale) ==
  [nitems |-> 0, nullcount |-> 0, nullmap |-> <<>>, values |-> <<>>,
   extra |-> <<>>, scale |-> scale]

\* __put_inline_null_value(column, row_index, sz)
PutInlineNull(column, row_index, sz) ==
  [column EXCEPT !.nullcount = @ + 1,
                 !.nullmap = sql_buffer_clrbit(@, row_index),
                 !.values = SqlBufferAppendZero(@, sz)]

\* put_ruby_int32_value
put_ruby_int32_value(column, datum) ==
  LET row_index == column.nitems
      counted   == [column EXCEPT !.nitems = @ + 1]
  IN  IF datum.nil THEN PutInlineNull(counted, row_index, SIZEOF_INT32)
      ELSE [counted EXCEPT
              !.nullmap = sql_buffer_setbit(@, row_index),
              !.values = SqlBufferAppendBytes(@, datum.num, SIZEOF_INT32)]

RECURSIVE Pow10(_)
Pow10(n) == IF n = 0 THEN 1 ELSE 10 * Pow10(n - 1)

\* __ruby_fetch_decimal_value of an Integer: the datum times 10 ** scale
ruby_fetch_decimal_value(datum, scale) == datum.num * Pow10(scale)

\* put_ruby_decimal_value
put_ruby_decimal_value(column, datum) ==
  LET row_index == column.nitems
      counted   == [column EXCEPT !.nitems = @ + 1]
      value     == ruby_fetch_decimal_value(datum, column.scale)
  IN  IF datum.nil THEN PutInlineNull(counted, row_index, SIZEOF_INT128)
      ELSE [counted EXCEPT
              !.nullmap = sql_buffer_setbit(@, row_index),
              !.values = SqlBufferAppendBytes(@, value, SIZEOF_DOUBLE)]

\* put_ruby_date_ms_value
put_ruby_date_ms_value(column, datum) ==
  LET row_index == column.nitems
      counted   == [column EXCEPT !.nitems = @ + 1]
      value     == (datum.sec * 1000000) + (datum.nsec \div 1000)
  IN  IF datum.nil THEN PutInlineNull(counted, row_index, SIZEOF_INT64)
      ELSE [counted EXCEPT
              !.nullmap = sql_buffer_setbit(@, row_index),
              !.values = SqlBufferAppendBytes(@, value, SIZEOF_INT64)]

\* put_ruby_timestamp_ms_value
put_ruby_timestamp_ms_value(column, datum) ==
  LET row_index == column.nitems
      counted   == [column EXCEPT !.nitems = @ + 1]
      value     == datum.sec * 1000 + datum.nsec \div 1000000
  IN  IF datum.nil THEN PutInlineNull(counted, row_index, SIZEOF_INT64)
      ELSE [counted EXCEPT
              !.nullmap = sql_buffer_setbit(@, row_index),
              !.values = SqlBufferAppendBytes(@, value, SIZEOF_INT64)]

\* put_ruby_utf8_value: the offset 0 goes ahead of the first row; every row
\* appends the usage of the extra buffer behind its own bytes
put_ruby_utf8_value(column, datum) ==
  LET row_index == column.nitems
      counted   == [column EXCEPT !.nitems = @ + 1]
      headed    == IF row_index = 0
                   THEN [counted EXCEPT
                           !.values = SqlBufferAppendZero(@, SIZEOF_UINT32)]
                   ELSE counted
  IN  IF datum.nil
      THEN [headed EXCEPT
              !.nullcount = @ + 1,
              !.nullmap = sql_buffer_clrbit(@, row_index),
              !.values = SqlBufferAppendBytes(@, Len(headed.extra),
                                              SIZEOF_UINT32)]
      ELSE LET extra == headed.extra \o datum.str
           IN  [headed EXCEPT
                  !.nullmap = sql_buffer_setbit(@, row_index),
                  !.extra = extra,
                  !.values = SqlBufferAppendBytes(@, Len(extra),
                                                  SIZEOF_UINT32)]

\* column->put_value, as __assignFieldType set it for the kind
ColumnPutValue(kind, column, datum) ==
  CASE kind = "Int32" -> put_ruby_int32_value(column, datum)
    [] kind = "Decimal" -> put_ruby_decimal_value(column, datum)
    [] kind = "DateMs" -> put_ruby_date_ms_value(column, datum)
    [] kind = "TimestampMs" -> put_ruby_timestamp_ms_value(column, datum)
    [] kind = "Utf8" -> put_ruby_utf8_value(column, datum)

\* the bytes of one value of the Arrow type: Int.bitWidth 32,
\* Decimal.bitWidth 128, and the 64 bits of Date[ms] and Timestamp[ms]
ColumnWidth(kind) ==
  CASE kind = "Int32" -> 32 \div 8
    [] kind = "Decimal" -> 128 \div 8
    [] kind = "DateMs" -> 64 \div 8
    [] kind = "TimestampMs" -> 64 \div 8

\* sql_table_clear on the column: the buffers are empty again
ColumnCleared(column) ==
  [column EXCEPT !.nitems = 0, !.nullcount = 0, !.nullmap = <<>>,
                 !.values = <<>>, !.extra = <<>>]

ColumnInit ==
  /\ CalcIdle
  /\ PipeIdle
  /\ ArrowIdle
  /\ PathIdle
  /\ StatIdle
  /\ MemIdle
  /\ col_kind \in ColumnKinds
  /\ \E scale \in DecimalScales :
       /\ col_kind # "Decimal" => scale = 0
       /\ col = ByteField(scale)
  /\ col_puts = 0
  /\ col_last = DatumNil
  /\ col_pc = "idle"

\* the put_value call of __arrowFile__writeRow on the column
ColumnPut(datum) ==
  /\ col_kind # "none"
  /\ col_puts < MaxColumnPuts
  /\ col' = ColumnPutValue(col_kind, col, datum)
  /\ col_puts' = col_puts + 1
  /\ col_last' = datum
  /\ col_pc' = "put"
  /\ UNCHANGED col_kind
  /\ UNCHANGED <<calcVars, pipeVars, arrowVars, pathVars, statVars, memVars>>

\* rb_ArrowFile__writeRow after an exception behind the put_value of the
\* column (another column's put_value, or the writing of the record
\* batch, raised): nitems is set back to the count before the row
ColumnRevert ==
  /\ col_pc = "put"
  /\ col' = [col EXCEPT !.nitems = @ - 1]
  /\ col_pc' = "reverted"
  /\ UNCHANGED <<col_kind, col_puts, col_last>>
  /\ UNCHANGED <<calcVars, pipeVars, arrowVars, pathVars, statVars, memVars>>

\* sql_table_clear of __arrowFile__writeRow, behind the record batch
ColumnClear ==
  /\ col_pc = "put"
  /\ col' = ColumnCleared(col)
  /\ col_puts' = 0
  /\ col_pc' = "cleared"
  /\ UNCHANGED <<col_kind, col_last>>
  /\ UNCHANGED <<calcVars, pipeVars, arrowVars, pathVars, statVars, memVars>>

ColumnNext ==
  \/ \E datum \in ColumnData(col_kind) : ColumnPut(datum)
  \/ ColumnRevert
  \/ ColumnClear

SpecColumn == ColumnInit /\ [][ColumnNext]_vars

\* C35: on a column of a fixed-width type every put_value call, of a NULL
\* or of a value, appends the width of the type to the values buffer: after
\* n calls the buffer holds n * width bytes (16 a row for Decimal128).
C35_WidthBytes ==
  col_kind \in FixedKinds =>
    Len(col.values) = col_puts * ColumnWidth(col_kind)

\* the 8 bytes of the values buffer that the last call appended
LastStored == SubSeq(col.values, Len(col.values) - 7, Len(col.values))

\* C36: a Date[ms] column stores for sec seconds and nsec nanoseconds the
\* milliseconds since the epoch, sec * 1000 + nsec / 1000000, which is the
\* value a Timestamp[ms] column stores for the same instant.
C36_DateMsIsMillis ==
  (col_kind = "DateMs" /\ col_pc = "put" /\ ~col_last.nil) =>
    /\ LastStored
         = LEBytes(col_last.sec * 1000 + col_last.nsec \div 1000000, 8)
    /\ LastStored
         = put_ruby_timestamp_ms_value(ByteField(0), col_last).values

\* the little-endian 32-bit number at the index k (from 0) of the buffer
OffsetAt(values, k) ==
  values[4 * k + 1] + 256 * values[4 * k + 2] + 65536 * values[4 * k + 3]
    + 16777216 * values[4 * k + 4]

\* the offsets of a Utf8 column after the put_value calls since the last
\* clear of the table
C38_OffsetsState ==
  (col_kind = "Utf8" /\ col_puts > 0) =>
    /\ Len(col.values) = 4 * (col_puts + 1)
    /\ OffsetAt(col.values, 0) = 0
    /\ \A k \in 1..col_puts :
         OffsetAt(col.values, k - 1) <= OffsetAt(col.values, k)
    /\ OffsetAt(col.values, col_puts) = Len(col.extra)

\* the put_value of a NULL on a Utf8 column
C38_NullStep ==
  (col_kind = "Utf8" /\ col_pc' = "put" /\ col' # col /\ col_last'.nil) =>
    /\ OffsetAt(col'.values, Len(col'.values) \div 4 - 1)
         = OffsetAt(col'.values, Len(col'.values) \div 4 - 2)
    /\ col'.nullmap[col.nitems + 1] = 0

\* C38: after n put_value calls on a Utf8 column since the last clear of
\* the table, the values buffer holds n + 1 offsets of 32 bits, the first
\* 0, never decreasing, the last the usage of the extra buffer; a NULL row
\* repeats the offset before it and clears its validity bit.
C38_Offsets == []C38_OffsetsState /\ [][C38_NullStep]_vars

(* ---------------------------------------------------------------------- *)
(* write_ruby_int128_stat.  An int128_t is held as 8 limbs of 16 bits, the  *)
(* lowest first, in two's complement; a character is held as its code.     *)
(* The number under test is given by its sign and its decimal digits and    *)
(* packed into the limbs, so that the text written can be compared with     *)
(* the digits the number was made of.                                       *)
(* ---------------------------------------------------------------------- *)

I128Limbs == 1..8

I128Zero == [i \in I128Limbs |-> 0]

\* ~x
I128Not(x) == [i \in I128Limbs |-> 65535 - x[i]]

\* the limbs from i on of x * m + carry, modulo 2^128
RECURSIVE I128MulAdd(_, _, _, _)
I128MulAdd(x, m, i, carry) ==
  IF i > 8 THEN <<>>
  ELSE LET t == x[i] * m + carry
       IN  <<t % 65536>> \o I128MulAdd(x, m, i + 1, t \div 65536)

\* the limbs from i on of x + carry, modulo 2^128
RECURSIVE I128AddCarry(_, _, _)
I128AddCarry(x, i, carry) ==
  IF i > 8 THEN <<>>
  ELSE LET t == x[i] + carry
       IN  <<t % 65536>> \o I128AddCarry(x, i + 1, t \div 65536)

\* -x in two's complement; the minimum is its own negation
I128Neg(x) == I128AddCarry(I128Not(x), 1, 1)

\* x < 0
I128Negative(x) == x[8] >= 32768

\* the minimum, -2^127
I128Min == [i \in I128Limbs |-> IF i = 8 THEN 32768 ELSE 0]

\* the unsigned division by 10 of the limbs 1..i of x behind a remainder
RECURSIVE I128UDiv(_, _, _)
I128UDiv(x, i, rem) ==
  IF i = 0 THEN [q |-> <<>>, rem |-> rem]
  ELSE LET t     == rem * 65536 + x[i]
           lower == I128UDiv(x, i - 1, t % 10)
       IN  [q |-> Append(lower.q, t \div 10), rem |-> lower.rem]

\* ival / 10 and ival % 10 of C, which truncate towards zero: the
\* remainder of a negative number is negative
I128DivMod10(x) ==
  IF I128Negative(x)
  THEN LET d == I128UDiv(I128Neg(x), 8, 0)
       IN  [q |-> I128Neg(d.q), dig |-> 0 - d.rem]
  ELSE LET d == I128UDiv(x, 8, 0)
       IN  [q |-> d.q, dig |-> d.rem]

\* the digits of 2^127 - 1 and of 2^127
MaxDigits ==
  <<1,7,0,1,4,1,1,8,3,4,6,0,4,6,9,2,3,1,7,3,1,6,8,7,3,0,3,7,1,5,8,8,4,1,0,5,
    7,2,7>>

MinDigits ==
  <<1,7,0,1,4,1,1,8,3,4,6,0,4,6,9,2,3,1,7,3,1,6,8,7,3,0,3,7,1,5,8,8,4,1,0,5,
    7,2,8>>

\* the magnitudes under test: 0, 1, 9, 10, 2^16 - 1, 2^16, 2^32, 2^64, and
\* 2^127 - 1
StatMagnitudes ==
  {<<0>>, <<1>>, <<9>>, <<1, 0>>, <<6, 5, 5, 3, 5>>, <<6, 5, 5, 3, 6>>,
   <<4, 2, 9, 4, 9, 6, 7, 2, 9, 6>>,
   <<1, 8, 4, 4, 6, 7, 4, 4, 0, 7, 3, 7, 0, 9, 5, 5, 1, 6, 1, 6>>,
   MaxDigits}

MinDecimal == [neg |-> TRUE, digits |-> MinDigits]

\* the numbers under test
StatInputs ==
  {[neg |-> FALSE, digits |-> d] : d \in StatMagnitudes}
    \cup {[neg |-> TRUE, digits |-> d] : d \in StatMagnitudes \ {<<0>>}}
    \cup {MinDecimal}

\* the int128_t that the first k digits make, four digits at a time
RECURSIVE I128OfDigits(_, _)
I128OfDigits(digits, k) ==
  IF k = 0 THEN I128Zero
  ELSE IF k >= 4
  THEN I128MulAdd(I128OfDigits(digits, k - 4), 10000, 1,
                  1000 * digits[k - 3] + 100 * digits[k - 2]
                    + 10 * digits[k - 1] + digits[k])
  ELSE I128MulAdd(I128OfDigits(digits, k - 1), 10, 1, digits[k])

\* stat_datum->i128 of a number
I128Of(dec) ==
  LET mag == I128OfDigits(dec.digits, Len(dec.digits))
  IN  IF dec.neg THEN I128Neg(mag) ELSE mag

\* the decimal representation of a number: '-' is 45, '0' is 48
DecimalString(dec) ==
  (IF dec.neg THEN <<45>> ELSE <<>>)
    \o [k \in 1..Len(dec.digits) |-> 48 + dec.digits[k]]

\* the text of the special case
I128MinString == <<45>> \o [k \in 1..Len(MinDigits) |-> 48 + MinDigits[k]]

StatInit ==
  /\ CalcIdle
  /\ PipeIdle
  /\ ArrowIdle
  /\ PathIdle
  /\ ColumnIdle
  /\ MemIdle
  /\ st_in \in StatInputs
  /\ st_ival = I128Of(st_in)
  /\ st_minus = FALSE
  /\ st_temp = <<>>
  /\ st_out = <<>>
  /\ st_pc = "new"

\* write_ruby_int128_stat up to the loop: the special case and the sign.
\* The negation of the minimum overflows, which is undefined: the build
\* wraps (the value stays the minimum) or traps
StatStart ==
  /\ st_pc = "new"
  /\ IF I128Not(st_ival) = I128Zero
     THEN /\ st_out' = I128MinString
          /\ st_pc' = "special"
          /\ UNCHANGED <<st_ival, st_minus>>
     ELSE IF I128Negative(st_ival)
     THEN /\ st_minus' = TRUE
          /\ \/ /\ st_ival' = I128Neg(st_ival)
                /\ st_pc' = "loop"
             \/ /\ st_ival = I128Min
                /\ st_ival' = st_ival
                /\ st_pc' = "trapped"
          /\ UNCHANGED st_out
     ELSE /\ st_pc' = "loop"
          /\ UNCHANGED <<st_ival, st_minus, st_out>>
  /\ UNCHANGED <<st_in, st_temp>>
  /\ UNCHANGED <<calcVars, pipeVars, arrowVars, pathVars, colVars, memVars>>

\* one round of the loop: the digit goes ahead of pos, ival is divided
StatDigit ==
  /\ st_pc = "loop"
  /\ LET dm == I128DivMod10(st_ival)
     IN  /\ st_temp' = <<48 + dm.dig>> \o st_temp
         /\ st_ival' = dm.q
         /\ st_pc' = IF dm.q # I128Zero THEN "loop" ELSE "format"
  /\ UNCHANGED <<st_in, st_minus, st_out>>
  /\ UNCHANGED <<calcVars, pipeVars, arrowVars, pathVars, colVars, memVars>>

\* snprintf(buf, len, "%s%s", (is_minus ? "-" : ""), pos)
StatFormat ==
  /\ st_pc = "format"
  /\ st_out' = (IF st_minus THEN <<45>> ELSE <<>>) \o st_temp
  /\ st_pc' = "done"
  /\ UNCHANGED <<st_in, st_ival, st_minus, st_temp>>
  /\ UNCHANGED <<calcVars, pipeVars, arrowVars, pathVars, colVars, memVars>>

StatNext == StatStart \/ StatDigit \/ StatFormat

SpecStat == StatInit /\ [][StatNext]_vars

\* C37: write_ruby_int128_stat writes the exact decimal representation of
\* every int128_t, -1, 0 and the minimum -2^127 among them, and only the
\* minimum takes the special case.
C37_ExactDecimal ==
  /\ st_pc \in {"done", "special"} => st_out = DecimalString(st_in)
  /\ st_pc = "special" => st_in = MinDecimal
  /\ st_pc # "trapped"

(* ---------------------------------------------------------------------- *)
(* The allocation context of arrow_ruby.c: a mallocContext is the head of   *)
(* a circular list of the chunks allocated in it.  Addresses are numbers;   *)
(* 0 is the address of the context, which is the current one.  The links    *)
(* are functions over the context and the chunks that malloc gave out.      *)
(* ---------------------------------------------------------------------- *)

MaxChunks == 3              \* the addresses malloc and realloc give out

MemAddrs == 1..MaxChunks

\* f with f[x] written
Store(f, x, v) == [y \in DOMAIN f \cup {x} |-> IF y = x THEN v ELSE f[y]]

\* f without the chunk that free has got
Freed(f, x) == [y \in DOMAIN f \ {x} |-> f[y]]

\* mallocContextInit
mallocContextInit == [next |-> [x \in {0} |-> 0], prev |-> [x \in {0} |-> 0]]

\* palloc: the links after the chunk curr went in behind the context
palloc(links, curr) ==
  LET next == links.next[0]
      n1   == Store(links.next, 0, curr)
      p1   == Store(links.prev, curr, 0)
      n2   == Store(n1, curr, next)
      p2   == Store(p1, next, curr)
  IN  [next |-> n2, prev |-> p2]

\* repalloc of a chunk: realloc left the chunk at old or moved it, with
\* its links, to curr; the neighbours are pointed at curr
repalloc(links, old, curr) ==
  LET n0 == Freed(Store(links.next, curr, links.next[old]),
                  IF curr = old THEN 0 - 1 ELSE old)
      p0 == Freed(Store(links.prev, curr, links.prev[old]),
                  IF curr = old THEN 0 - 1 ELSE old)
      n1 == Store(n0, p0[curr], curr)
      p1 == Store(p0, n0[curr], curr)
  IN  [next |-> n1, prev |-> p1]

\* (a slip: the chunk behind is not pointed back)
pfree_half(links, curr) ==
  LET n1 == Store(links.next, links.prev[curr], links.next[curr])
  IN  [next |-> Freed(n1, curr), prev |-> Freed(links.prev, curr)]

\* pfree: the chunk is taken out of the list and freed
pfree(links, curr) ==
  LET n1 == Store(links.next, links.prev[curr], links.next[curr])
      p1 == Store(links.prev, links.next[curr], links.prev[curr])
  IN  [next |-> Freed(n1, curr), prev |-> Freed(p1, curr)]

MemLinks == [next |-> mc_next, prev |-> mc_prev]

MemInit ==
  /\ CalcIdle
  /\ PipeIdle
  /\ ArrowIdle
  /\ PathIdle
  /\ ColumnIdle
  /\ StatIdle
  /\ mc_next = mallocContextInit.next
  /\ mc_prev = mallocContextInit.prev
  /\ mc_heap = {}
  /\ mc_live = {}
  /\ mc_rel = <<>>
  /\ mc_curr = 0
  /\ mc_op = "init"
  /\ mc_pc = "open"

\* malloc gave out the address curr, palloc linked the chunk
PallocChunk(curr) ==
  /\ mc_pc = "open"
  /\ curr \notin mc_heap
  /\ mc_next' = palloc(MemLinks, curr).next
  /\ mc_prev' = palloc(MemLinks, curr).prev
  /\ mc_heap' = mc_heap \cup {curr}
  /\ mc_live' = mc_live \cup {curr}
  /\ UNCHANGED <<mc_rel, mc_curr, mc_pc>>
  /\ UNCHANGED <<calcVars, pipeVars, arrowVars, pathVars, colVars, statVars>>

Palloc(curr) == PallocChunk(curr) /\ mc_op' = "palloc"

\* palloc0: palloc, and the data are zeroed
Palloc0(curr) == PallocChunk(curr) /\ mc_op' = "palloc0"

\* pstrdup: palloc, and the string is copied
Pstrdup(curr) == PallocChunk(curr) /\ mc_op' = "pstrdup"

\* repalloc(NULL, sz) is palloc
RepallocNull(curr) == PallocChunk(curr) /\ mc_op' = "repalloc of NULL"

\* malloc of palloc, or realloc of repalloc, gave NULL: rb_memerror raises
\* and the list is as before
MemError ==
  /\ mc_pc = "open"
  /\ mc_op' = "memerror"
  /\ UNCHANGED <<mc_next, mc_prev, mc_heap, mc_live, mc_rel, mc_curr, mc_pc>>
  /\ UNCHANGED <<calcVars, pipeVars, arrowVars, pathVars, colVars, statVars>>

\* repalloc of a chunk: realloc keeps the address or gives a free one
Repalloc(old, curr) ==
  /\ mc_pc = "open"
  /\ old \in mc_live
  /\ curr = old \/ curr \notin mc_heap
  /\ mc_next' = repalloc(MemLinks, old, curr).next
  /\ mc_prev' = repalloc(MemLinks, old, curr).prev
  /\ mc_heap' = (mc_heap \ {old}) \cup {curr}
  /\ mc_live' = (mc_live \ {old}) \cup {curr}
  /\ mc_op' = IF curr = old THEN "repalloc" ELSE "repalloc moved"
  /\ UNCHANGED <<mc_rel, mc_curr, mc_pc>>
  /\ UNCHANGED <<calcVars, pipeVars, arrowVars, pathVars, colVars, statVars>>

Pfree(curr) ==
  /\ mc_pc = "open"
  /\ curr \in mc_live
  /\ mc_next' = pfree(MemLinks, curr).next
  /\ mc_prev' = pfree(MemLinks, curr).prev
  /\ mc_heap' = mc_heap \ {curr}
  /\ mc_live' = mc_live \ {curr}
  /\ mc_op' = "pfree"
  /\ UNCHANGED <<mc_rel, mc_curr, mc_pc>>
  /\ UNCHANGED <<calcVars, pipeVars, arrowVars, pathVars, colVars, statVars>>

\* mallocContextRelease: curr = mcxt->next
ReleaseStart ==
  /\ mc_pc = "open"
  /\ mc_curr' = mc_next[0]
  /\ mc_pc' = "releasing"
  /\ UNCHANGED <<mc_next, mc_prev, mc_heap, mc_live, mc_rel, mc_op>>
  /\ UNCHANGED <<calcVars, pipeVars, arrowVars, pathVars, colVars, statVars>>

\* one round of the loop: next = curr->next; free(curr); curr = next.
\* A curr that free has seen before is a read of freed memory
ReleaseStep ==
  /\ mc_pc = "releasing"
  /\ mc_curr # 0
  /\ IF mc_curr \in mc_heap
     THEN /\ mc_rel' = Append(mc_rel, mc_curr)
          /\ mc_heap' = mc_heap \ {mc_curr}
          /\ mc_next' = Freed(mc_next, mc_curr)
          /\ mc_prev' = Freed(mc_prev, mc_curr)
          /\ mc_curr' = mc_next[mc_curr]
          /\ UNCHANGED mc_pc
     ELSE /\ mc_pc' = "corrupt"
          /\ UNCHANGED <<mc_rel, mc_heap, mc_next, mc_prev, mc_curr>>
  /\ UNCHANGED <<mc_live, mc_op>>
  /\ UNCHANGED <<calcVars, pipeVars, arrowVars, pathVars, colVars, statVars>>

\* the loop ends when curr is the context again
ReleaseEnd ==
  /\ mc_pc = "releasing"
  /\ mc_curr = 0
  /\ mc_pc' = "released"
  /\ UNCHANGED <<mc_next, mc_prev, mc_heap, mc_live, mc_rel, mc_curr, mc_op>>
  /\ UNCHANGED <<calcVars, pipeVars, arrowVars, pathVars, colVars, statVars>>

MemNext ==
  \/ \E curr \in MemAddrs : Palloc(curr)
  \/ \E curr \in MemAddrs : Palloc0(curr)
  \/ \E curr \in MemAddrs : Pstrdup(curr)
  \/ \E curr \in MemAddrs : RepallocNull(curr)
  \/ \E old, curr \in MemAddrs : Repalloc(old, curr)
  \/ \E curr \in MemAddrs : Pfree(curr)
  \/ MemError
  \/ ReleaseStart
  \/ ReleaseStep
  \/ ReleaseEnd

SpecMem == MemInit /\ [][MemNext]_vars

\* the chunks met from a on along next, at most fuel of them
RECURSIVE ChunksFrom(_, _)
ChunksFrom(a, fuel) ==
  IF a = 0 \/ fuel = 0 THEN <<>>
  ELSE IF a \notin DOMAIN mc_next THEN <<a>>
  ELSE <<a>> \o ChunksFrom(mc_next[a], fuel - 1)

SeqRange(seq) == {seq[i] : i \in DOMAIN seq}

\* C39: after any sequence of palloc, palloc0, pstrdup, repalloc and pfree
\* the chunks of the context form a circular doubly linked list, next and
\* prev inverse of each other, of exactly the chunks allocated and not
\* freed; mallocContextRelease frees each of them once.
C39_ChunkList ==
  /\ mc_pc = "open" =>
       /\ DOMAIN mc_next = {0} \cup mc_live
       /\ DOMAIN mc_prev = {0} \cup mc_live
       /\ mc_heap = mc_live
       /\ \A a \in DOMAIN mc_next :
            /\ mc_next[a] \in DOMAIN mc_prev
            /\ mc_prev[a] \in DOMAIN mc_next
            /\ mc_prev[mc_next[a]] = a
            /\ mc_next[mc_prev[a]] = a
       /\ LET met == ChunksFrom(mc_next[0], Cardinality(mc_live) + 1)
          IN  /\ SeqRange(met) = mc_live
              /\ Len(met) = Cardinality(mc_live)
  /\ mc_pc = "released" =>
       /\ SeqRange(mc_rel) = mc_live
       /\ Len(mc_rel) = Cardinality(mc_live)
       /\ mc_heap = {}
  /\ mc_pc # "corrupt"

\* two chunks, the last operation on them a pfree, were released
C39_Witness ==
  /\ mc_pc = "released"
  /\ mc_op = "pfree"
  /\ Len(mc_rel) = 2

====
